---- MODULE Spec2Model ----
(***************************************************************************)
(* State-machine model of MginDB (src/mgindb).                             *)
(*                                                                         *)
(* The AppState singleton and the two files it is persisted to are one     *)
(* record, app_state; every handler is an operator from that record to a   *)
(* handler result (new record, reply, raised exception, messages sent),    *)
(* written statement by statement after the Python source.                 *)
(*                                                                         *)
(* Documents.  A JSON tree is a function from paths (sequences of keys)    *)
(* to nodes.  The root dict is the path <<>>.  A node is a record          *)
(*   [k |-> "d", v |-> keys in insertion order]   dict                     *)
(*   [k |-> "s", v |-> <<text>>]                  str                      *)
(*   [k |-> "i", v |-> <<digits>>]                int                      *)
(*   [k |-> "l", v |-> elements]                  list of str              *)
(* Keys are one character long, so that Python's substring test on         *)
(* ':'-joined keys is the contiguous-subsequence test on the key lists,    *)
(* and no key equals 'type', 'values' or 'key'.  The one longer key is the *)
(* field 'value' of SpecReshardData, where query caching is off and no     *)
(* substring test is made.                                                 *)
(***************************************************************************)
EXTENDS Integers, Sequences, FiniteSets, TLC

VARIABLES
    app_state,   \* AppState singleton plus data_file / indices_file / backups
    now,         \* time.time(), whole seconds
    last,        \* observation of the last handler run (history, not program state)
    session,     \* one client connection: frames in flight and the WebSocketSession
    peers        \* the other shard servers: host -> its AppState

----------------------------------------------------------------------------
(* Bounds *)

MaxTime == 3
ExpireSecs == 1
CacheTtl == 2
SaveInterval == 2

----------------------------------------------------------------------------
(* Values and paths *)

DictNode(keys) == [k |-> "d", v |-> keys]
StrNode(x) == [k |-> "s", v |-> <<x>>]
IntNode(x) == [k |-> "i", v |-> <<x>>]
ListNode(xs) == [k |-> "l", v |-> xs]

NoReply == "<no reply>"

Parent(p) == SubSeq(p, 1, Len(p) - 1)
LastKey(p) == p[Len(p)]
Prefix(p, n) == SubSeq(p, 1, n)
IsPrefix(p, q) == Len(p) <= Len(q) /\ SubSeq(q, 1, Len(p)) = p
InSeq(x, s) == \E i \in 1..Len(s) : s[i] = x
SeqSet(s) == {s[i] : i \in 1..Len(s)}
Without(s, x) == SelectSeq(s, LAMBDA y : y # x)
AppendNew(s, x) == IF InSeq(x, s) THEN s ELSE Append(s, x)

\* Python `a in b` on the ':'-joined strings of two key lists
SubstringOf(a, b) ==
    \E i \in 0..(Len(b) - Len(a)) : SubSeq(b, i + 1, i + Len(a)) = a

\* str(value)
ListRepr(xs) ==
    LET RECURSIVE go(_)
        go(i) == IF i > Len(xs) THEN ""
                 ELSE (IF i > 1 THEN ", " ELSE "") \o "'" \o xs[i] \o "'" \o go(i + 1)
    IN "[" \o go(1) \o "]"

StrOf(node) ==
    CASE node.k = "s" -> node.v[1]
      [] node.k = "i" -> node.v[1]
      [] node.k = "l" -> ListRepr(node.v)
      [] OTHER -> "{...}"

----------------------------------------------------------------------------
(* Python dict operations on a document tree *)

EmptyStore == (<<>> :> DictNode(<<>>))

HasKey(d, p) == p \in DOMAIN d
IsDictAt(d, p) == p \in DOMAIN d /\ d[p].k = "d"
IsEmptyDictAt(d, p) == IsDictAt(d, p) /\ d[p].v = <<>>

\* del d[..parent..][key]
DictDel(d, p) ==
    LET keep == {q \in DOMAIN d : ~IsPrefix(p, q)}
    IN [q \in keep |-> IF q = Parent(p) THEN DictNode(Without(d[q].v, LastKey(p)))
                       ELSE d[q]]

\* d[..parent..][key] = node   (node is a leaf or an empty dict)
DictPut(d, p, node) ==
    LET keep == {q \in DOMAIN d : ~IsPrefix(p, q)} \cup {p}
    IN [q \in keep |-> IF q = p THEN node
                       ELSE IF q = Parent(p) THEN DictNode(AppendNew(d[q].v, LastKey(p)))
                       ELSE d[q]]

\* cur[new] = cur.pop(old)   with cur the dict at path par
DictRename(d, par, old, new) ==
    LET src == Append(par, old)
        dst == Append(par, new)
        popped == DictDel(d, src)
        base == {q \in DOMAIN popped : ~IsPrefix(dst, q)}
        moved == {dst \o SubSeq(q, Len(src) + 1, Len(q)) : q \in {m \in DOMAIN d : IsPrefix(src, m)}}
    IN [q \in base \cup moved |->
            IF IsPrefix(dst, q) THEN d[src \o SubSeq(q, Len(dst) + 1, Len(q))]
            ELSE IF q = par THEN DictNode(AppendNew(popped[par].v, new))
            ELSE popped[q]]

\* the part of the tree at and below p, as seen from p
Subtree(d, p) ==
    [q \in {SubSeq(m, Len(p) + 1, Len(m)) : m \in {x \in DOMAIN d : IsPrefix(p, x)}} |-> d[p \o q]]

\* a path on which some proper prefix is present but is not a dict
NonDictOnPath(d, parts) ==
    \E i \in 1..(Len(parts) - 1) : HasKey(d, Prefix(parts, i)) /\ d[Prefix(parts, i)].k # "d"

\* the first i with path[:i] absent from the tree, 0 if the whole path is present
FirstAbsent(d, path) ==
    IF \A i \in 1..Len(path) : HasKey(d, Prefix(path, i)) THEN 0
    ELSE CHOOSE i \in 1..Len(path) :
             /\ ~HasKey(d, Prefix(path, i))
             /\ \A j \in 1..(i - 1) : HasKey(d, Prefix(path, j))

\* Python `key in node`: "yes", "no", or the exception it raises (strings
\* of the model are one character long, so substring is equality)
PyIn(key, node) ==
    CASE node.k = "i" -> "TypeError"
      [] node.k = "s" -> IF node.v[1] = key THEN "yes" ELSE "no"
      [] node.k = "l" -> IF InSeq(key, node.v) THEN "yes" ELSE "no"
      [] OTHER -> IF InSeq(key, node.v) THEN "yes" ELSE "no"

\* `if key in current: current = current[key]` along path: "reached",
\* "absent", or the exception raised on the way
Descend(d, path) ==
    IF FirstAbsent(d, path) = 0 THEN "reached"
    ELSE IF PyIn(path[FirstAbsent(d, path)],
                 d[Prefix(path, FirstAbsent(d, path) - 1)]) = "no" THEN "absent"
    ELSE "TypeError"     \* `in` on an int, or <str or list>[key]

\* current = current.setdefault(part, {}) for part in parts[:-1]
SetDefaultChain(d, parts) ==
    LET RECURSIVE go(_, _)
        go(dd, i) == IF i >= Len(parts) THEN dd
                     ELSE IF HasKey(dd, Prefix(parts, i)) THEN go(dd, i + 1)
                     ELSE go(DictPut(dd, Prefix(parts, i), DictNode(<<>>)), i + 1)
    IN go(d, 1)

----------------------------------------------------------------------------
(* Persistence flags *)

is_scheduler_active(st) == st.config_store.SCHEDULER = "1"

\* what is left of a file whose writing failed: no JSON document
PartialFile == (<<"">> :> StrNode(""))

\* st.disk says what the next writing of each file does: "ok", or the
\* IOError comes from open ("open"), from a write while json.dump fills the
\* file ("dump"), or from the flush of the buffer when the with block closes
\* the file ("close"), which is after the flag was reset.  The IOError is
\* caught and printed.
save_data(st) ==
    IF ~st.data_has_changed THEN st
    ELSE CASE st.disk.data = "ok" ->
                  [st EXCEPT !.data_file = st.data_store, !.data_has_changed = FALSE]
           [] st.disk.data = "open" -> st
           [] st.disk.data = "dump" -> [st EXCEPT !.data_file = PartialFile]
           [] OTHER -> [st EXCEPT !.data_file = PartialFile, !.data_has_changed = FALSE]

save_indices(st) ==
    IF ~st.indices_has_changed THEN st
    ELSE CASE st.disk.indices = "ok" ->
                  [st EXCEPT !.indices_file = st.indices, !.indices_has_changed = FALSE]
           [] st.disk.indices = "open" -> st
           [] st.disk.indices = "dump" -> [st EXCEPT !.indices_file = PartialFile]
           [] OTHER -> [st EXCEPT !.indices_file = PartialFile, !.indices_has_changed = FALSE]

\* AppState().data_has_changed = True; if not scheduler active: save_data()
MarkDataChanged(st) ==
    LET s1 == [st EXCEPT !.data_has_changed = TRUE]
    IN IF is_scheduler_active(s1) THEN s1 ELSE save_data(s1)

\* if not scheduler active: save_indices() else: indices_has_changed = True
MarkIndicesChanged(st) ==
    IF is_scheduler_active(st) THEN [st EXCEPT !.indices_has_changed = TRUE]
    ELSE save_indices(st)

----------------------------------------------------------------------------
(* Indices.  indices is a function from <<collection, field>> to           *)
(* [type, values]; values maps str(value) to a bucket [kind, ids]: the     *)
(* entity keys filed under the value and the Python type holding them      *)
(* ("set", "list" as indices_create builds it, "str" for the single entity *)
(* key of a 'string' index).  Entity keys are key lists: 'u:1' is          *)
(* <<"u","1">>.                                                            *)

Bucket(kind, ids) == [kind |-> kind, ids |-> ids]
NoValues == [x \in {} |-> Bucket("set", {})]

PutKey(f, key, val) == [x \in DOMAIN f \cup {key} |-> IF x = key THEN val ELSE f[x]]
DropKeys(f, keys) == [x \in DOMAIN f \ keys |-> f[x]]

\* processed_values = value if isinstance(value, list) else [value]; str(item)
Items(node) == IF node.k = "l" THEN SeqSet(node.v) ELSE {StrOf(node)}

IndexCollections(idx) == {ip[1] : ip \in DOMAIN idx}

construct_index_parts(parts, idx) ==
    LET RECURSIVE walk(_, _)
        walk(i, acc) ==
            IF i > Len(parts) THEN acc
            ELSE IF Len(acc) = 0
                 THEN IF parts[i] \in IndexCollections(idx)
                      THEN walk(i + 1, <<parts[i]>>) ELSE walk(i + 1, acc)
            ELSE IF Len(acc) = 1
                 THEN IF <<acc[1], parts[i]>> \in DOMAIN idx
                      THEN walk(i + 1, Append(acc, parts[i])) ELSE walk(i + 1, acc)
            ELSE walk(i + 1, acc)   \* temp_dict is {'type','values'}: no key matches
    IN walk(1, <<>>)

\* get_nested_index_info(...) is an index description ('type' in index_info)
get_nested_index_info(idx, index_parts) ==
    IF Len(index_parts) = 2 /\ index_parts \in DOMAIN idx THEN {idx[index_parts]} ELSE {}

\* set_for_item = values_dict.setdefault(item, set()); a list becomes a set; add
AddToBuckets(values, items, entity_key) ==
    [x \in DOMAIN values \cup items |->
        IF x \in items
        THEN Bucket("set", (IF x \in DOMAIN values THEN values[x].ids ELSE {}) \cup {entity_key})
        ELSE values[x]]

\* new_index['values'][single_value_str].append(f"{main_key}:{key}")
AppendToBuckets(values, items, entity_key) ==
    [x \in DOMAIN values \cup items |->
        IF x \in items
        THEN Bucket("list", (IF x \in DOMAIN values THEN values[x].ids ELSE {}) \cup {entity_key})
        ELSE values[x]]

\* values_dict[item].remove(entity_key) without the del of an emptied value
RemoveKeepBuckets(values, items, entity_key) ==
    [x \in DOMAIN values |->
        IF x \in items THEN [values[x] EXCEPT !.ids = @ \ {entity_key}] ELSE values[x]]

\* values_dict[item].remove(entity_key); del values_dict[item] when it is left empty
RemoveFromBuckets(values, items, entity_key) ==
    [x \in DOMAIN values \ {y \in items \cap DOMAIN values : values[y].ids = {entity_key}} |->
        IF x \in items THEN [values[x] EXCEPT !.ids = @ \ {entity_key}] ELSE values[x]]

\* index_info is the index at index_parts
IndexAdd(st, index_parts, value, entity_key) ==
    MarkIndicesChanged(
        [st EXCEPT !.indices[index_parts].values =
            IF st.indices[index_parts].type = "set"
            THEN AddToBuckets(@, Items(value), entity_key)
            ELSE PutKey(@, StrOf(value), Bucket("str", {entity_key}))])

update_index_on_add(st, parts, value, entity_key) ==
    IF get_nested_index_info(st.indices, construct_index_parts(parts, st.indices)) = {} THEN st
    ELSE IndexAdd(st, construct_index_parts(parts, st.indices), value, entity_key)

IndexRemove(st, index_parts, old_value, entity_key) ==
    MarkIndicesChanged(
        [st EXCEPT !.indices[index_parts].values =
            IF st.indices[index_parts].type = "set"
            THEN RemoveFromBuckets(@, Items(old_value), entity_key)
            ELSE DropKeys(@, {x \in DOMAIN @ : @[x].ids = {entity_key}})])

update_index_on_remove(st, parts, old_value, entity_key) ==
    IF get_nested_index_info(st.indices, construct_index_parts(parts, st.indices)) = {} THEN st
    ELSE IndexRemove(st, construct_index_parts(parts, st.indices), old_value, entity_key)

\* the raw value is the lookup key: an int never equals a str key, a list is
\* unhashable, and a bucket that is still a list has no discard
FieldRemove(st, index_parts, keys, value_to_remove) ==
    IF value_to_remove.k = "l" THEN [st |-> st, exc |-> "TypeError"]
    ELSE IF ~(value_to_remove.k = "s"
              /\ value_to_remove.v[1] \in DOMAIN st.indices[index_parts].values)
    THEN [st |-> MarkIndicesChanged(st), exc |-> ""]
    ELSE IF st.indices[index_parts].type = "string"
    THEN [st |-> MarkIndicesChanged(
                    [st EXCEPT !.indices[index_parts].values =
                        DropKeys(@, {value_to_remove.v[1]})]),
          exc |-> ""]
    ELSE IF keys \notin st.indices[index_parts].values[value_to_remove.v[1]].ids
    THEN [st |-> MarkIndicesChanged(st), exc |-> ""]
    ELSE IF st.indices[index_parts].values[value_to_remove.v[1]].kind = "list"
    THEN [st |-> st, exc |-> "AttributeError"]
    ELSE [st |-> MarkIndicesChanged(
                    [st EXCEPT !.indices[index_parts].values =
                        RemoveFromBuckets(@, {value_to_remove.v[1]}, keys)]),
          exc |-> ""]

FieldIndexParts(st, keys, field) ==
    IF Len(keys) > 2 THEN Append(keys, field)
    ELSE Append(construct_index_parts(Parent(keys), st.indices), field)

\* result is [st, exc]
remove_field_from_index(st, keys, field, value_to_remove) ==
    IF Len(keys) = 0 THEN [st |-> st, exc |-> ""]
    ELSE IF get_nested_index_info(st.indices, FieldIndexParts(st, keys, field)) = {}
    THEN [st |-> st, exc |-> ""]
    ELSE FieldRemove(st, FieldIndexParts(st, keys, field), keys, value_to_remove)

\* one index of the collection after entities.discard / del of emptied values
EntityRemoved(info, entity_key) ==
    IF info.type = "set"
    THEN [x \in {y \in DOMAIN info.values : info.values[y].ids \ {entity_key} # {}} |->
              [info.values[x] EXCEPT !.ids = @ \ {entity_key}]]
    ELSE DropKeys(info.values, {y \in DOMAIN info.values : info.values[y].ids = {entity_key}})

remove_entity_from_index(st, keys) ==
    MarkIndicesChanged(
        [st EXCEPT !.indices =
            [ip \in DOMAIN st.indices |->
                IF ip[1] = keys[1]
                THEN [st.indices[ip] EXCEPT !.values = EntityRemoved(st.indices[ip], keys)]
                ELSE st.indices[ip]]])

\* the loop of indices_create over data_store.get(main_key, {}).items()
RECURSIVE PopulateFrom(_, _, _, _, _, _)
PopulateFrom(d, main_key, field, index_type, i, vals) ==
    IF i > Len(d[<<main_key>>].v) THEN vals
    ELSE IF ~(IsDictAt(d, <<main_key, d[<<main_key>>].v[i]>>)
              /\ HasKey(d, <<main_key, d[<<main_key>>].v[i], field>>))
    THEN PopulateFrom(d, main_key, field, index_type, i + 1, vals)
    ELSE PopulateFrom(d, main_key, field, index_type, i + 1,
             IF index_type = "set"
             THEN AppendToBuckets(vals, Items(d[<<main_key, d[<<main_key>>].v[i], field>>]),
                                  <<main_key, d[<<main_key>>].v[i]>>)
             ELSE PutKey(vals, StrOf(d[<<main_key, d[<<main_key>>].v[i], field>>]),
                         Bucket("str", {<<main_key, d[<<main_key>>].v[i]>>})))

\* the values indices_create computes for a new index over the existing data
PopulateIndex(d, main_key, field, index_type) ==
    IF IsDictAt(d, <<main_key>>) THEN PopulateFrom(d, main_key, field, index_type, 1, NoValues)
    ELSE NoValues

\* which entity keys are filed under which value, whatever holds them
IndexContent(values) == [x \in DOMAIN values |-> values[x].ids]

----------------------------------------------------------------------------
(* Query cache.  A cached command is the root path of the QUERY; the       *)
(* cached result is the subtree it was computed from.  data_store_cache    *)
(* and data_store_cache_keys_expiration are written together and are one   *)
(* function here.  data_store_key_command_mapping keeps insertion order.   *)

NoCache == [x \in {} |-> [result |-> <<>>, expiration |-> 0]]

has_caching(st) == st.config_store.QUERY_CACHING = "1"

MappingKeys(mapping) == {mapping[i].key : i \in 1..Len(mapping)}
MappingAdd(mapping, key, command) ==
    IF key \in MappingKeys(mapping)
    THEN [i \in 1..Len(mapping) |->
             IF mapping[i].key = key
             THEN [mapping[i] EXCEPT !.commands = Append(@, command)] ELSE mapping[i]]
    ELSE Append(mapping, [key |-> key, commands |-> <<command>>])

\* entry['key'] of every entry of format_as_list(result)
ResultEntryKeys(result) ==
    IF <<>> \in DOMAIN result /\ result[<<>>].k = "d" THEN result[<<>>].v ELSE <<>>

add_to_cache(st, command, query_key, query_result, t) ==
    IF ~has_caching(st) THEN st
    ELSE LET entry == [result |-> query_result,
                       expiration |-> t + st.config_store.QUERY_CACHING_TTL]
             keys == ResultEntryKeys(query_result)
             RECURSIVE track(_, _)
             track(i, m) == IF i > Len(keys) THEN m
                            ELSE track(i + 1, MappingAdd(m, Append(query_key, keys[i]), command))
         IN [st EXCEPT
                !.data_store_cache = PutKey(@, command, entry),
                !.data_store_key_command_mapping =
                    track(1, MappingAdd(@, query_key, command))]

\* result is [st, exc]; is_list: the caller passed base_path (a list) as query_key
remove_from_cache(st, query_key, is_list) ==
    IF ~has_caching(st) THEN [st |-> st, exc |-> ""]
    ELSE IF is_list THEN [st |-> st, exc |-> "TypeError"]   \* unhashable type: 'list'
    ELSE LET m0 == st.data_store_key_command_mapping
             popped == {i \in 1..Len(m0) : m0[i].key = query_key}
             m1 == SelectSeq(m0, LAMBDA e : e.key # query_key)
             broader == {i \in 1..Len(m1) : SubstringOf(query_key, m1[i].key)}
             \* an entry emptied to [] is appended to keys_to_remove twice
             twice == {i \in broader : m1[i].commands = <<>>}
             gone == UNION {SeqSet(m0[i].commands) : i \in popped}
                     \cup UNION {SeqSet(m1[i].commands) : i \in broader}
             cache == DropKeys(st.data_store_cache, gone)
             firstTwice == CHOOSE i \in twice : \A j \in twice : i <= j
             m2 == IF twice = {}
                   THEN SelectSeq(m1, LAMBDA e : ~SubstringOf(query_key, e.key))
                   ELSE LET dead == {m1[i].key : i \in {j \in broader : j <= firstTwice}}
                        IN SelectSeq(m1, LAMBDA e : e.key \notin dead)
         IN [st |-> [st EXCEPT !.data_store_cache = cache,
                               !.data_store_key_command_mapping = m2],
             exc |-> IF twice = {} THEN "" ELSE "KeyError"]

cleanup_expired_entries(st, t) ==
    IF ~has_caching(st) THEN st
    ELSE LET expired == {c \in DOMAIN st.data_store_cache :
                            st.data_store_cache[c].expiration <= t}
             \* list.remove(key): the first occurrence of each expired command
             RECURSIVE strip(_, _)
             strip(s, seen) ==
                 IF s = <<>> THEN <<>>
                 ELSE IF Head(s) \in expired \ seen
                 THEN strip(Tail(s), seen \cup {Head(s)})
                 ELSE <<Head(s)>> \o strip(Tail(s), seen)
             m0 == st.data_store_key_command_mapping
             \* a list that lost a command and became empty is deleted
             keep == {i \in 1..Len(m0) :
                         SeqSet(m0[i].commands) \cap expired = {}
                         \/ strip(m0[i].commands, {}) # <<>>}
             RECURSIVE build(_)
             build(i) ==
                 IF i > Len(m0) THEN <<>>
                 ELSE IF i \in keep
                 THEN <<[m0[i] EXCEPT !.commands = strip(@, {})]>> \o build(i + 1)
                 ELSE build(i + 1)
         IN [st EXCEPT !.data_store_cache = DropKeys(@, expired),
                       !.data_store_key_command_mapping = build(1)]

\* a lookup that leaves out the comparison with time.time()
get_cache_any(st, command, t) ==
    IF has_caching(st) /\ command \in DOMAIN st.data_store_cache
    THEN {st.data_store_cache[command].result}
    ELSE {}

\* the set of results get_cache(command) returns: empty set for None
get_cache(st, command, t) ==
    IF has_caching(st) /\ command \in DOMAIN st.data_store_cache
       /\ st.data_store_cache[command].expiration > t
    THEN {st.data_store_cache[command].result}
    ELSE {}

flush_cache(st) ==
    IF has_caching(st)
    THEN [st EXCEPT !.data_store_cache = NoCache, !.data_store_key_command_mapping = <<>>]
    ELSE st

----------------------------------------------------------------------------
(* Handler results, notification, replication and shard routing *)

\* what a handler run leaves: the state, the reply (NoReply when it raised),
\* the exception, the notifications, the commands sent to the slaves and to
\* shards, and for QUERY the set holding the result list
Res(st, reply) ==
    [st |-> st, reply |-> reply, exc |-> "", notify |-> <<>>, repl |-> <<>>, fwd |-> <<>>,
     result |-> {}]
Raise(st, exc) ==
    [st |-> st, reply |-> NoReply, exc |-> exc, notify |-> <<>>, repl |-> <<>>, fwd |-> <<>>,
     result |-> {}]

\* key + ':*' for every non-empty prefix of the key, the key included
WildcardKeys(key_parts) == {Append(Prefix(key_parts, i), "*") : i \in 1..Len(key_parts)}

\* prefix + ':*:*' for every non-empty proper prefix of the key
DeeperWildcards(key_parts) ==
    {Prefix(key_parts, i) \o <<"*", "*">> : i \in 1..(Len(key_parts) - 1)}

\* subscribers, a set, updated with sub_pub[k] for every such k and for the key
Subscribers(st, key_parts) ==
    UNION {st.sub_pub[k] : k \in (WildcardKeys(key_parts) \cup DeeperWildcards(key_parts)
                                      \cup {key_parts}) \cap DOMAIN st.sub_pub}

\* a list of subscribers, extended with sub_pub[k] for every such k: the
\* number of times sid is in it
SubscriberEntries(st, key_parts, sid) ==
    IF sid \notin DOMAIN st.sessions THEN 0
    ELSE Cardinality({k \in (WildcardKeys(key_parts) \cup DeeperWildcards(key_parts)
                                 \cup {key_parts}) \cap DOMAIN st.sub_pub : sid \in st.sub_pub[k]})

\* for sid in subscribers: send_websocket_message(sid, message), which sends
\* to a session that is registered: the number of messages sid is sent
MessagesTo(st, key_parts, sid) ==
    IF sid \in Subscribers(st, key_parts) /\ sid \in DOMAIN st.sessions THEN 1 ELSE 0

\* notify_subscribers(key, data): the sessions sent {"key": key, "data": data},
\* how many times each, and the indices as they are when it is sent
notify_subscribers(st, key_parts) ==
    [sids |-> {sid \in DOMAIN st.sessions : MessagesTo(st, key_parts, sid) > 0},
     key |-> key_parts,
     sent |-> [sid \in DOMAIN st.sessions |-> MessagesTo(st, key_parts, sid)],
     indices |-> st.indices]

has_replication_is_replication_master(st) ==
    st.config_store.REPLICATION_TYPE = "MASTER" /\ st.config_store.REPLICATION = "1"

has_sharding(st) == st.config_store.SHARDING = "1"

has_sharding_is_sharding_master(st) ==
    st.config_store.SHARDING_TYPE = "MASTER" /\ st.config_store.SHARDING = "1"

\* int(sha256(key).hexdigest(), 16) % 6 for the modelled sharding keys, which
\* gives the shard number for one, two, three and six shards
Sha256Mod6(key) ==
    CASE key = <<"u", "1">> -> 0
      [] key = <<"u", "2">> -> 3
      [] key = <<"u", "3">> -> 4
      [] key = <<"u", "4">> -> 2
      [] key = <<"u">> -> 2
      [] key = <<"u", "*">> -> 5
      [] key = <<"u", "1", "f">> -> 0
      [] key = <<"u", "3", "f">> -> 4
      [] key = <<"u", "4", "f">> -> 1
      [] key = <<"u", "1", "f", "g">> -> 4
      [] key = <<"u", "3", "f", "g">> -> 2
      [] key = <<"u", "4", "f", "g">> -> 2
      [] OTHER -> 0

get_shard(st, key) ==
    st.config_store.SHARDS[(Sha256Mod6(key) % Len(st.config_store.SHARDS)) + 1]

\* what the peer connection does: "up" answers, "down" fails to connect,
\* "reject" answers the credentials with something other than the welcome
send_to_shard(net) ==
    CASE net = "up" -> "OK"
      [] net = "reject" -> "Authentication failed."
      [] OTHER -> "False"

check_sharding(st, key, net) ==
    IF st.config_store.SHARDING = "0" THEN [result |-> "LOCAL", shard |-> "", sent |-> FALSE]
    ELSE LET shard == get_shard(st, key)
         IN IF st.config_store.SHARDING_TYPE = "MASTER" /\ shard # st.config_store.HOST
            THEN [result |-> IF send_to_shard(net) = "False" THEN "ERROR" ELSE send_to_shard(net),
                  shard |-> shard, sent |-> net = "up"]
            ELSE [result |-> "LOCAL", shard |-> "", sent |-> FALSE]

\* the whole path as the sharding key
ShardingKeyWholePath(parts) == parts

\* ':'.join(parts[:2]) if len(parts) > 1 else parts[0]
ShardingKey(parts) == IF Len(parts) > 1 THEN Prefix(parts, 2) ELSE <<parts[1]>>

\* parts[:parts.index('*')]
BasePath(parts) ==
    Prefix(parts, (CHOOSE i \in 1..Len(parts) :
                      parts[i] = "*" /\ \A j \in 1..(i - 1) : parts[j] # "*") - 1)

NumStr(n) == CASE n = 0 -> "0" [] n = 1 -> "1" [] n = 2 -> "2" [] OTHER -> "3"

----------------------------------------------------------------------------
(* SET.  A handler is a chain of operators, one per group of statements,   *)
(* each taking the state the statements before it left.                    *)

\* ':'.join(parts[:2]) if len(parts) > 2 else parts[0]
EntityKey(parts) == IF Len(parts) > 2 THEN Prefix(parts, 2) ELSE <<parts[1]>>

\* update_index_on_remove of a differing old value; current[last_key] = value;
\* update_index_on_add
StoreValue(s, parts, value) ==
    update_index_on_add(
        [(IF HasKey(s.data_store, parts) /\ s.data_store[parts] # value
          THEN update_index_on_remove(s, parts, s.data_store[parts], EntityKey(parts))
          ELSE s)
         EXCEPT !.data_store = DictPut(s.data_store, parts, value)],
        parts, value, EntityKey(parts))

\* c is what remove_from_cache(base_key) returned
SetNotifyAndSave(c, parts) ==
    IF c.exc # "" THEN Raise(c.st, c.exc)
    ELSE [Res(MarkDataChanged(c.st), "OK") EXCEPT
             !.notify = <<notify_subscribers(c.st, parts)>>]

\* current.setdefault on a non-dict; `last_key in current` / current[last_key] = value
\* on a non-dict
SetPathError(d, parts) ==
    IF \E i \in 1..(Len(parts) - 2) : HasKey(d, Prefix(parts, i)) /\ d[Prefix(parts, i)].k # "d"
    THEN "AttributeError"
    ELSE IF HasKey(d, Parent(parts)) /\ d[Parent(parts)].k # "d" THEN "TypeError"
    ELSE ""

set_individual_key(st, parts, value) ==
    IF SetPathError(st.data_store, parts) # "" THEN Raise(st, SetPathError(st.data_store, parts))
    ELSE SetNotifyAndSave(
             remove_from_cache(
                 StoreValue([st EXCEPT !.data_store = SetDefaultChain(@, parts)], parts, value),
                 <<parts[1]>>, FALSE),
             parts)

RECURSIVE SetObjectMembers(_, _, _, _)
\* for key, val in parsed_value.items(): set_individual_key(parts + [key], val);
\* members is the sequence of <<key, val>>
SetObjectMembers(acc, parts, members, i) ==
    IF i > Len(members) THEN acc
    ELSE IF set_individual_key(acc.st, Append(parts, members[i][1]), members[i][2]).exc # ""
    THEN [acc EXCEPT
             !.st = set_individual_key(acc.st, Append(parts, members[i][1]), members[i][2]).st,
             !.exc = set_individual_key(acc.st, Append(parts, members[i][1]),
                                        members[i][2]).exc,
             !.reply = NoReply]
    ELSE SetObjectMembers(
             [acc EXCEPT
                 !.st = set_individual_key(acc.st, Append(parts, members[i][1]),
                                           members[i][2]).st,
                 !.notify = acc.notify \o set_individual_key(
                                acc.st, Append(parts, members[i][1]), members[i][2]).notify],
             parts, members, i + 1)

\* a value [k |-> "o", v |-> members] is the text of a JSON object; any other
\* value goes straight to set_individual_key
set_specific_key(st, parts, value) ==
    IF value.k = "o" THEN SetObjectMembers(Res(st, "OK"), parts, value.v, 1)
    ELSE set_individual_key(st, parts, value)

\* recursive_set at depth == len(base_path): for item_key, item_value in current.items()
RECURSIVE WildcardSetItems(_, _, _, _, _, _)
WildcardSetItems(s, base_path, items, i, last_key, value) ==
    IF i > Len(items) THEN [st |-> s, count |-> i - 1, exc |-> ""]
    ELSE IF ~IsDictAt(s.data_store, Append(base_path, items[i]))
    THEN [st |-> s, count |-> i - 1, exc |-> "AttributeError"]    \* item_value.get
    ELSE WildcardSetItems(StoreValue(s, base_path \o <<items[i], last_key>>, value),
                          base_path, items, i + 1, last_key, value)

\* c is what remove_from_cache(base_path) returned
WildcardSetNotifyAndSave(c, count, full_key) ==
    IF c.exc # "" THEN Raise(c.st, c.exc)
    ELSE [Res(MarkDataChanged(c.st), "Updated " \o NumStr(count) \o " entries.") EXCEPT
             !.notify = <<notify_subscribers(c.st, full_key)>>]

\* l is what the loop over the items returned
WildcardSetAfterLoop(l, base_path, last_key) ==
    IF l.exc # "" THEN Raise(l.st, l.exc)
    ELSE IF l.count > 0
    THEN WildcardSetNotifyAndSave(remove_from_cache(l.st, base_path, TRUE), l.count,
                                  Append(base_path, last_key))
    ELSE Res(MarkDataChanged(l.st), "Updated 0 entries.")

\* the handler result, with the reply set_command builds from the count
set_keys_wildcard(st, base_path, last_key, value) ==
    IF Descend(st.data_store, base_path) = "TypeError" THEN Raise(st, "TypeError")
    ELSE IF Descend(st.data_store, base_path) = "absent"
    THEN Res(MarkDataChanged(st), "Updated 0 entries.")
    ELSE IF ~IsDictAt(st.data_store, base_path) THEN Raise(st, "AttributeError")  \* .items()
    ELSE WildcardSetAfterLoop(
             WildcardSetItems(st, base_path, st.data_store[base_path].v, 1, last_key, value),
             base_path, last_key)

ExpiresPut(store, key, expire_at) ==
    IF \E i \in 1..Len(store) : store[i].key = key
    THEN [i \in 1..Len(store) |->
             IF store[i].key = key THEN [key |-> key, expire_at |-> expire_at] ELSE store[i]]
    ELSE Append(store, [key |-> key, expire_at |-> expire_at])

ReplTo(st, command) == IF has_replication_is_replication_master(st) THEN <<command>> ELSE <<>>

FwdTo(shard_result, command) ==
    IF shard_result.sent THEN <<[shard |-> shard_result.shard, command |-> command]>> ELSE <<>>

\* r is what set_keys_wildcard / set_specific_key returned: expiry, replication
SetExpiryAndReplicate(r, st, parts, value, expire, t) ==
    IF r.exc # "" THEN r
    ELSE [r EXCEPT
             !.st = IF expire
                    THEN [r.st EXCEPT !.expires_store = ExpiresPut(@, parts, t + ExpireSecs)]
                    ELSE r.st,
             !.repl = ReplTo(st, [cmd |-> "SET", parts |-> parts, value |-> value,
                                  expire |-> FALSE])]

SetRouted(shard_result, st, parts, value, expire, t) ==
    IF shard_result.result \notin {"ERROR", "LOCAL"}
    THEN [Res(st, "OK") EXCEPT
             !.fwd = FwdTo(shard_result, [cmd |-> "SET", parts |-> parts, value |-> value,
                                          expire |-> expire])]
    ELSE IF shard_result.result = "ERROR" THEN Res(st, "ERROR: Sharding failed")
    ELSE SetExpiryAndReplicate(
             IF InSeq("*", parts)
             THEN set_keys_wildcard(st, BasePath(parts), LastKey(parts), value)
             ELSE set_specific_key(st, parts, value),
             st, parts, value, expire, t)

\* one command of the SET line; expire: the value carries EXPIRE(ExpireSecs)
set_command(st, parts, value, expire, t, net) ==
    IF expire /\ ~is_scheduler_active(st)
    THEN Res(st, "Scheduler is not active. Run the command CONFIG SET SCHEDULER 1 to activate")
    ELSE IF InSeq("*", parts) /\ has_sharding(st)
    THEN Res(st, "ERROR: Wildcard operations are not supported in sharding mode.")
    ELSE SetRouted(check_sharding(st, ShardingKey(parts), net), st, parts, value, expire, t)

----------------------------------------------------------------------------
(* DEL *)

\* DataUtil.cleanup_empty_dicts(data, path): never reaches path[0]
RECURSIVE CleanupFrom(_, _, _)
CleanupFrom(d, path, i) ==
    IF i < 2 THEN d
    ELSE IF ~HasKey(d, Prefix(path, i - 1)) THEN d
    ELSE IF IsEmptyDictAt(d, Prefix(path, i)) THEN CleanupFrom(DictDel(d, Prefix(path, i)), path, i - 1)
    ELSE d

cleanup_empty_dicts(d, path) == CleanupFrom(d, path, Len(path))

\* c is what remove_from_cache(base_key) returned
DeleteReply(c) ==
    IF c.exc = "KeyError" THEN Res(c.st, "ERROR: Path not found") ELSE Res(c.st, "OK")

\* ix is what remove_entity_from_index / remove_field_from_index returned:
\* del current_data[key_to_delete], cleanup_empty_dicts, save, remove_from_cache
DeleteAfterIndex(ix, parts) ==
    IF ix.exc # "" THEN Res(ix.st, "ERROR: Exception occurred")
    ELSE DeleteReply(
             remove_from_cache(
                 MarkDataChanged([ix.st EXCEPT !.data_store =
                     cleanup_empty_dicts(DictDel(@, parts), Parent(parts))]),
                 <<parts[1]>>, FALSE))

\* remove_field_parts = parts[:1] + parts[2:] if len(parts) > 3 else parts
RemoveFieldParts(parts) ==
    IF Len(parts) > 3 THEN <<parts[1]>> \o SubSeq(parts, 3, Len(parts)) ELSE parts

\* replies are cut before the ' - <message>' the generic handler appends
delete_specific_key(st, parts) ==
    IF FirstAbsent(st.data_store, Parent(parts)) # 0
    THEN (IF IsDictAt(st.data_store,
                      Prefix(parts, FirstAbsent(st.data_store, Parent(parts)) - 1))
          THEN Res(st, "ERROR: Path not found")             \* KeyError
          ELSE Res(st, "ERROR: Exception occurred"))         \* <scalar>[part]
    ELSE IF PyIn(LastKey(parts), st.data_store[Parent(parts)]) = "TypeError"
    THEN Res(st, "ERROR: Exception occurred")                \* key in <int>
    ELSE IF PyIn(LastKey(parts), st.data_store[Parent(parts)]) = "no"
    THEN Res(st, "ERROR: Key does not exist")
    ELSE IF st.data_store[Parent(parts)].k # "d"
    THEN Res(st, "ERROR: Exception occurred")                \* <str or list>[key]
    ELSE DeleteAfterIndex(
             IF st.data_store[parts].k = "d"
             THEN [st |-> remove_entity_from_index(st, parts), exc |-> ""]
             ELSE remove_field_from_index(st, Parent(RemoveFieldParts(parts)), LastKey(parts),
                                          st.data_store[parts]),
             parts)

\* recursive_delete(current): every key equal to last_key, at any depth below base_path
WildcardDeleted(d, base_path, last_key) ==
    [q \in {x \in DOMAIN d :
               ~(IsPrefix(base_path, x)
                 /\ \E i \in (Len(base_path) + 1)..Len(x) : x[i] = last_key)} |->
        IF IsPrefix(base_path, q) /\ d[q].k = "d"
        THEN DictNode(Without(d[q].v, last_key)) ELSE d[q]]

WildcardDeletedCount(d, base_path, last_key) ==
    Cardinality({q \in DOMAIN d :
                    /\ IsPrefix(base_path, q) /\ Len(q) > Len(base_path)
                    /\ LastKey(q) = last_key
                    /\ \A i \in (Len(base_path) + 1)..(Len(q) - 1) : q[i] # last_key})

\* c is what remove_from_cache(base_path) returned
WildcardDeleteSave(c, count) ==
    IF c.exc # "" THEN Raise(c.st, c.exc)
    ELSE Res(MarkDataChanged(c.st), "Deleted " \o NumStr(count) \o " entries.")

\* the handler result, with the reply del_command builds from the count
delete_keys_wildcard(st, base_path, last_key) ==
    IF ~HasKey(st.data_store, base_path)
    THEN (IF NonDictOnPath(st.data_store, base_path)
          THEN Raise(st, "TypeError")                        \* <scalar>[key]
          ELSE Res(st, "Deleted 0 entries."))                \* except KeyError: return 0
    ELSE WildcardDeleteSave(
             remove_from_cache(
                 [st EXCEPT !.data_store = WildcardDeleted(@, base_path, last_key)],
                 base_path, TRUE),
             WildcardDeletedCount(st.data_store, base_path, last_key))

\* r is what delete_keys_wildcard / delete_specific_key returned
DelReplicate(r, st, parts) ==
    IF r.exc # "" THEN r
    ELSE [r EXCEPT !.repl = ReplTo(st, [cmd |-> "DEL", parts |-> parts])]

DelRouted(shard_result, st, parts) ==
    IF shard_result.result \notin {"ERROR", "LOCAL"}
    THEN [Res(st, "OK") EXCEPT !.fwd = FwdTo(shard_result, [cmd |-> "DEL", parts |-> parts])]
    ELSE IF shard_result.result = "ERROR" THEN Res(st, "ERROR")
    ELSE DelReplicate(
             IF InSeq("*", parts)
             THEN delete_keys_wildcard(st, BasePath(parts), LastKey(parts))
             ELSE delete_specific_key(st, parts),
             st, parts)

\* one command of the DEL line
del_command(st, parts, net) ==
    IF InSeq("*", parts) /\ has_sharding(st)
    THEN Res(st, "ERROR: Wildcard deletions are not supported in sharding mode.")
    ELSE DelRouted(check_sharding(st, ShardingKey(parts), net), st, parts)

----------------------------------------------------------------------------
(* RENAME *)

\* item[new_key] = item.pop(target_key) for item in current.values()
RECURSIVE WildcardRenameItems(_, _, _, _, _, _, _)
WildcardRenameItems(d, base_path, items, i, target_key, new_key, count) ==
    IF i > Len(items) THEN [d |-> d, count |-> count, exc |-> ""]
    ELSE IF PyIn(target_key, d[Append(base_path, items[i])]) = "TypeError"
    THEN [d |-> d, count |-> count, exc |-> "TypeError"]
    ELSE IF PyIn(target_key, d[Append(base_path, items[i])]) = "no"
    THEN WildcardRenameItems(d, base_path, items, i + 1, target_key, new_key, count)
    ELSE IF d[Append(base_path, items[i])].k = "s"
    THEN [d |-> d, count |-> count, exc |-> "AttributeError"]   \* str has no pop
    ELSE IF d[Append(base_path, items[i])].k = "l"
    THEN [d |-> d, count |-> count, exc |-> "TypeError"]        \* list.pop(<str>)
    ELSE WildcardRenameItems(DictRename(d, Append(base_path, items[i]), target_key, new_key),
                             base_path, items, i + 1, target_key, new_key, count + 1)

RenameReply(keys_renamed) ==
    IF keys_renamed = 0 THEN "Nothing to rename"
    ELSE "RENAME successful: " \o NumStr(keys_renamed) \o " keys renamed."

\* l is what recursive_rename returned
WildcardRenameSave(l, st, path_parts, new_key) ==
    IF l.exc # "" THEN Raise([st EXCEPT !.data_store = l.d], l.exc)
    ELSE [Res(MarkDataChanged([st EXCEPT !.data_store = l.d]), RenameReply(l.count)) EXCEPT
             !.repl = ReplTo(st, [cmd |-> "RENAME", parts |-> path_parts, new_key |-> new_key])]

RenameWildcard(st, path_parts, new_key) ==
    IF Descend(st.data_store, BasePath(path_parts)) = "TypeError" THEN Raise(st, "TypeError")
    ELSE IF Descend(st.data_store, BasePath(path_parts)) = "absent"
    THEN WildcardRenameSave([d |-> st.data_store, count |-> 0, exc |-> ""],
                            st, path_parts, new_key)
    ELSE IF ~IsDictAt(st.data_store, BasePath(path_parts))
    THEN Raise(st, "AttributeError")                             \* .values()
    ELSE WildcardRenameSave(
             WildcardRenameItems(st.data_store, BasePath(path_parts),
                                 st.data_store[BasePath(path_parts)].v, 1,
                                 LastKey(path_parts), new_key, 0),
             st, path_parts, new_key)

RenameSpecific(st, path_parts, new_key) ==
    IF Descend(st.data_store, Parent(path_parts)) = "TypeError" THEN Raise(st, "TypeError")
    ELSE IF Descend(st.data_store, Parent(path_parts)) = "absent"
    THEN Res(st, "ERROR: Path not found")
    ELSE IF PyIn(LastKey(path_parts), st.data_store[Parent(path_parts)]) = "TypeError"
    THEN Raise(st, "TypeError")
    ELSE IF PyIn(LastKey(path_parts), st.data_store[Parent(path_parts)]) = "no"
    THEN Res(st, "ERROR: Key not found to rename.")
    ELSE IF st.data_store[Parent(path_parts)].k = "s" THEN Raise(st, "AttributeError")
    ELSE IF st.data_store[Parent(path_parts)].k = "l" THEN Raise(st, "TypeError")
    ELSE [Res(MarkDataChanged(
                  [st EXCEPT !.data_store =
                      DictRename(@, Parent(path_parts), LastKey(path_parts), new_key)]),
              "RENAME successful: 1 key renamed.") EXCEPT
             !.repl = ReplTo(st, [cmd |-> "RENAME", parts |-> path_parts, new_key |-> new_key])]

\* the peer is sent 'RENAME ' + path, without the new key
RenameRouted(shard_result, st, path_parts, new_key) ==
    IF shard_result.result \notin {"ERROR", "LOCAL"}
    THEN [Res(st, "OK") EXCEPT
             !.fwd = FwdTo(shard_result, [cmd |-> "RENAME", parts |-> path_parts])]
    ELSE IF shard_result.result = "ERROR" THEN Res(st, "ERROR: Sharding failed")
    ELSE IF InSeq("*", path_parts) THEN RenameWildcard(st, path_parts, new_key)
    ELSE RenameSpecific(st, path_parts, new_key)

rename_command(st, path_parts, new_key, net) ==
    RenameRouted(check_sharding(st, ShardingKey(path_parts), net), st, path_parts, new_key)

----------------------------------------------------------------------------
(* INCR / DECR.  An int is kept as its decimal text. *)

MinInt == 0 - 1
MaxInt == 3

IntStr(n) ==
    CASE n = 0 - 1 -> "-1" [] n = 0 -> "0" [] n = 1 -> "1" [] n = 2 -> "2" [] n = 3 -> "3"
      [] OTHER -> "?"

IntOf(x) == CHOOSE n \in MinInt..MaxInt : IntStr(n) = x

IsDigits(x) == \E n \in 0..MaxInt : IntStr(n) = x

\* DataUtil.get_nested_value: the set holding the value found, empty for None
get_nested_value(d, keys) ==
    IF FirstAbsent(d, keys) = 0 THEN {d[keys]}
    ELSE IF /\ FirstAbsent(d, keys) = Len(keys)
            /\ d[Parent(keys)].k = "l"
            /\ IsDigits(LastKey(keys))
            /\ IntOf(LastKey(keys)) < Len(d[Parent(keys)].v)
    THEN {StrNode(d[Parent(keys)].v[IntOf(LastKey(keys)) + 1])}    \* data[int(key)]
    ELSE {}

\* if key not in data or not isinstance(data[key], dict): data[key] = {}
RECURSIVE MakeDicts(_, _, _)
MakeDicts(d, keys, i) ==
    IF i >= Len(keys) THEN d
    ELSE IF IsDictAt(d, Prefix(keys, i)) THEN MakeDicts(d, keys, i + 1)
    ELSE MakeDicts(DictPut(d, Prefix(keys, i), DictNode(<<>>)), keys, i + 1)

set_nested_value(d, keys, value) == DictPut(MakeDicts(d, keys, 1), keys, value)

\* data is the set get_nested_value returned; amount is 1
IncrLocal(st, data, keys, increment) ==
    IF data # {} /\ (CHOOSE x \in data : TRUE).k # "i"
    THEN Raise(st, "TypeError")                                  \* data + amount
    ELSE [Res(MarkDataChanged(
                  [st EXCEPT !.data_store =
                      set_nested_value(@, keys,
                          IntNode(IntStr((IF data = {} THEN 0
                                          ELSE IntOf((CHOOSE x \in data : TRUE).v[1]))
                                         + (IF increment THEN 1 ELSE 0 - 1))))]),
              "OK") EXCEPT
             !.notify = <<notify_subscribers(st, keys)>>,
             !.repl = ReplTo(st, [cmd |-> IF increment THEN "INCR" ELSE "DECR",
                                  parts |-> keys])]

IncrRouted(shard_result, st, keys, increment) ==
    IF shard_result.result \notin {"ERROR", "LOCAL"}
    THEN [Res(st, "OK") EXCEPT
             !.fwd = FwdTo(shard_result, [cmd |-> IF increment THEN "INCR" ELSE "DECR",
                                          parts |-> keys])]
    ELSE IF shard_result.result = "ERROR" THEN Res(st, "ERROR")
    ELSE IncrLocal(st, get_nested_value(st.data_store, keys), keys, increment)

\* one command of the INCR / DECR line, amount 1
incr_decr_command(st, keys, increment, net) ==
    IncrRouted(check_sharding(st, ShardingKey(keys), net), st, keys, increment)

\* the int the command would store stays inside MinInt..MaxInt
IncrInRange(st, keys, increment) ==
    \A x \in get_nested_value(st.data_store, keys) :
        x.k = "i" => IntOf(x.v[1]) + (IF increment THEN 1 ELSE 0 - 1) \in MinInt..MaxInt

----------------------------------------------------------------------------
(* FLUSHALL *)

OtherShards(st) ==
    SelectSeq(st.config_store.SHARDS, LAMBDA shard : shard # st.config_store.HOST)

\* flush_cache is named but not called; the files are written only if the
\* dirty flags were already set
flush_all_command(st, net) ==
    [Res(save_indices(save_data([st EXCEPT !.data_store = EmptyStore, !.indices = <<>>])),
         "All indices and data flushed successfully.") EXCEPT
        !.fwd = IF has_sharding_is_sharding_master(st) /\ net = "up"
                THEN [i \in 1..Len(OtherShards(st)) |->
                         [shard |-> OtherShards(st)[i], command |-> [cmd |-> "FLUSHALL"]]]
                ELSE <<>>]

----------------------------------------------------------------------------
(* INDICES CREATE / DEL / FLUSH, for index paths 'collection:field' *)

\* the new index is in place before the loop over the collection runs
IndexInserted(st, main_key, field, index_type) ==
    [st EXCEPT !.indices = PutKey(@, <<main_key, field>>,
                                  [type |-> index_type, values |-> NoValues])]

indices_create(st, main_key, field, index_type) ==
    IF <<main_key, field>> \in DOMAIN st.indices THEN Res(st, "ERROR: Index already exists")
    ELSE IF HasKey(st.data_store, <<main_key>>) /\ ~IsDictAt(st.data_store, <<main_key>>)
    THEN Raise(IndexInserted(st, main_key, field, index_type), "AttributeError")  \* .items()
    ELSE [Res(MarkIndicesChanged(
                  [st EXCEPT !.indices =
                      PutKey(@, <<main_key, field>>,
                             [type |-> index_type,
                              values |-> PopulateIndex(st.data_store, main_key, field,
                                                       index_type)])]),
              "OK") EXCEPT
             !.repl = ReplTo(st, [cmd |-> "INDICES CREATE", parts |-> <<main_key, field>>,
                                  arg |-> index_type])]

\* del values[value_to_delete]; an index left without values is deleted
ValueDeleted(idx, ip, value_to_delete) ==
    IF DOMAIN idx[ip].values = {value_to_delete} THEN DropKeys(idx, {ip})
    ELSE [idx EXCEPT ![ip].values = DropKeys(@, {value_to_delete})]

\* replicated only under an active scheduler, and as INDICES CREATE
indices_del(st, main_key, field, value_to_delete) ==
    IF main_key \notin IndexCollections(st.indices) THEN Res(st, "ERROR: Key not found")
    ELSE IF ~(<<main_key, field>> \in DOMAIN st.indices
              /\ value_to_delete \in DOMAIN st.indices[<<main_key, field>>].values)
    THEN Res(st, "ERROR: Value not found under index")
    ELSE IF ~is_scheduler_active(st)
    THEN Res(save_indices([st EXCEPT !.indices =
                              ValueDeleted(@, <<main_key, field>>, value_to_delete)]),
             "OK")
    ELSE [Res([st EXCEPT !.indices = ValueDeleted(@, <<main_key, field>>, value_to_delete),
                         !.indices_has_changed = TRUE],
              "OK") EXCEPT
             !.repl = ReplTo(st, [cmd |-> "INDICES CREATE", parts |-> <<main_key, field>>,
                                  arg |-> value_to_delete])]

\* args names a collection: every index of it goes, and nothing is replicated;
\* args is 'collection:field': that index goes, and the command is replicated
indices_flush(st, args) ==
    IF Len(args) = 1 /\ args[1] \in IndexCollections(st.indices)
    THEN Res(MarkIndicesChanged(
                 [st EXCEPT !.indices = DropKeys(@, {ip \in DOMAIN @ : ip[1] = args[1]})]),
             "OK")
    ELSE IF Len(args) = 1 THEN Res(st, "ERROR: Index or Sub-key not found")
    ELSE IF args[1] \notin IndexCollections(st.indices) THEN Res(st, "ERROR: Index not found")
    ELSE IF Prefix(args, 2) \notin DOMAIN st.indices THEN Res(st, "ERROR: Sub-key not found")
    ELSE [Res(MarkIndicesChanged([st EXCEPT !.indices = DropKeys(@, {Prefix(args, 2)})]),
              "OK") EXCEPT
             !.repl = ReplTo(st, [cmd |-> "INDICES FLUSH", parts |-> args, arg |-> ""])]

----------------------------------------------------------------------------
(* QUERY <root>, without conditions and modifiers, on a node that is not a *)
(* sharding master.  The command string is the root path; a result is the  *)
(* subtree the entries were formatted from.                                *)

\* format_as_list(...) is []
NoResults(d, root) == IsEmptyDictAt(d, root) \/ (d[root].k = "l" /\ d[root].v = <<>>)

\* cached is what get_cache(command) returned
LocalQuery(st, cached, root, t) ==
    IF cached # {} THEN [Res(st, "results") EXCEPT !.result = cached]
    ELSE IF Len(root) > 1 /\ ~IsDictAt(st.data_store, <<root[1]>>)
    THEN Raise(st, "AttributeError")                    \* data_to_query.get
    ELSE IF NoResults(st.data_store, root) THEN [Res(st, "[]") EXCEPT !.result = {}]
    ELSE [Res(add_to_cache(st, root, root, Subtree(st.data_store, root), t), "results") EXCEPT
             !.result = {Subtree(st.data_store, root)}]

process_local_query(st, root, t) == LocalQuery(st, get_cache(st, root, t), root, t)

query_command(st, root, t) ==
    IF Descend(st.data_store, root) = "TypeError" THEN Raise(st, "TypeError")
    ELSE IF Descend(st.data_store, root) = "absent" THEN [Res(st, "[]") EXCEPT !.result = {}]
    ELSE process_local_query(st, root, t)

----------------------------------------------------------------------------
(* The scheduler loop: cleanup_expired_keys, cleanup_expired_entries, save *)

\* nested_delete(data_store, key_parts): [d, ok, exc]
nested_delete(d, key_parts) ==
    IF Descend(d, Parent(key_parts)) = "TypeError" THEN [d |-> d, ok |-> FALSE, exc |-> "TypeError"]
    ELSE IF Descend(d, Parent(key_parts)) = "absent" THEN [d |-> d, ok |-> FALSE, exc |-> ""]
    ELSE IF PyIn(LastKey(key_parts), d[Parent(key_parts)]) = "TypeError"
    THEN [d |-> d, ok |-> FALSE, exc |-> "TypeError"]
    ELSE IF PyIn(LastKey(key_parts), d[Parent(key_parts)]) = "no"
    THEN [d |-> d, ok |-> FALSE, exc |-> ""]
    ELSE IF d[Parent(key_parts)].k # "d"
    THEN [d |-> d, ok |-> FALSE, exc |-> "TypeError"]           \* del <str or list>[key]
    ELSE [d |-> DictDel(d, key_parts), ok |-> TRUE, exc |-> ""]

\* parent_data = get_nested(...); parent_data is not None and not parent_data
\* (a missing part reads as {})
ParentIsEmpty(d, key_parts) ==
    IF FirstAbsent(d, key_parts) = 0 THEN IsEmptyDictAt(d, key_parts)
    ELSE d[Prefix(key_parts, FirstAbsent(d, key_parts) - 1)].k = "d"

\* while len(key_parts) > 1: key_parts.pop(); remove the parent if it is empty
RECURSIVE PruneParents(_, _)
PruneParents(d, key_parts) ==
    IF Len(key_parts) <= 1 THEN d
    ELSE IF ParentIsEmpty(d, Parent(key_parts))
    THEN PruneParents(nested_delete(d, Parent(key_parts)).d, Parent(key_parts))
    ELSE d

ExpiresDrop(store, key) == SelectSeq(store, LAMBDA e : e.key # key)

\* the keys of keys_to_remove, in the order of expires_store
KeysToRemove(st, t) ==
    [i \in 1..Len(SelectSeq(st.expires_store, LAMBDA e : e.expire_at < t)) |->
        SelectSeq(st.expires_store, LAMBDA e : e.expire_at < t)[i].key]

RECURSIVE CleanupKeys(_, _, _)

\* nd is what nested_delete(data_store, keys[i]) returned
CleanupKey(nd, st, keys, i) ==
    IF nd.exc # "" THEN [st |-> st, exc |-> nd.exc]
    ELSE IF nd.ok
    THEN CleanupKeys([st EXCEPT !.data_store = PruneParents(nd.d, keys[i]),
                                !.expires_store = ExpiresDrop(@, keys[i])],
                     keys, i + 1)
    ELSE CleanupKeys(st, keys, i + 1)                \* "Failed to delete expired key"

CleanupKeys(st, keys, i) ==
    IF i > Len(keys) THEN [st |-> st, exc |-> ""]
    ELSE CleanupKey(nested_delete(st.data_store, keys[i]), st, keys, i)

\* result is [st, exc]
cleanup_expired_keys(st, t) == CleanupKeys(st, KeysToRemove(st, t), 1)

\* save_timer += 1; if save_timer >= save_interval: save_data(); save_indices()
SaveOnInterval(st) ==
    IF st.save_timer + 1 >= st.config_store.SAVE_ON_FILE_INTERVAL
    THEN save_indices(save_data([st EXCEPT !.save_timer = 0]))
    ELSE [st EXCEPT !.save_timer = @ + 1]

\* c is what cleanup_expired_keys returned; an exception ends the scheduler task
SchedulerAfterKeys(c, t) ==
    IF c.exc # "" THEN Raise([c.st EXCEPT !.scheduler_alive = FALSE], c.exc)
    ELSE Res(SaveOnInterval(cleanup_expired_entries(c.st, t)), NoReply)

\* the minutes between two runs of a cron expression; the clock of a
\* specification with scheduled tasks counts minutes
CronPeriod(schedule) == IF schedule = "* * * * *" THEN 1 ELSE 2

\* croniter(schedule, last_run_time).get_next(): the first run after the time
calculate_next_run(schedule, last_run_time) ==
    ((last_run_time \div CronPeriod(schedule)) + 1) * CronPeriod(schedule)

\* scheduled_tasks is the dict in insertion order: a sequence of
\* [schedule, tasks], tasks a sequence of [key, command, last, next]
ScheduledTasks(st) ==
    UNION {{[schedule |-> st.scheduled_tasks[i].schedule, task |-> st.scheduled_tasks[i].tasks[j]] :
               j \in 1..Len(st.scheduled_tasks[i].tasks)} : i \in 1..Len(st.scheduled_tasks)}

\* the module command_processing has no name process_command: the import in
\* execute_task raises before any command is run
execute_task(st, key, task) == Raise(st, "ImportError")

\* the loop over the tasks: ADD never leaves next at 0, and the first task
\* whose time has come ends the scheduler task with the exception of
\* execute_task
TasksRun(st, t) ==
    IF \E x \in ScheduledTasks(st) : t >= x.task.next
    THEN execute_task(st, (CHOOSE x \in ScheduledTasks(st) : t >= x.task.next).task.key,
                      (CHOOSE x \in ScheduledTasks(st) : t >= x.task.next).task)
    ELSE Res(st, NoReply)

\* r is what the loop over the tasks left
SchedulerAfterTasks(r, t) ==
    IF r.exc # "" THEN Raise([r.st EXCEPT !.scheduler_alive = FALSE], r.exc)
    ELSE SchedulerAfterKeys(cleanup_expired_keys(r.st, t), t)

\* one pass of the while True loop of run_scheduler
run_scheduler(st, t) == SchedulerAfterTasks(TasksRun(st, t), t)

----------------------------------------------------------------------------
(* Construction and the observation of a handler run *)

vars == <<app_state, now, last, session, peers>>

\* no backup file of any kind; a backup is a one-element sequence
NoBackups == [data |-> <<>>, indices |-> <<>>, scheduler |-> <<>>]

\* a server without peers
NoPeers == <<>>

DefaultConfig ==
    [SCHEDULER |-> "0", QUERY_CACHING |-> "0", QUERY_CACHING_TTL |-> CacheTtl,
     REPLICATION |-> "0", REPLICATION_TYPE |-> "MASTER", REPLICATION_SLAVES |-> <<>>,
     SHARDING |-> "0", SHARDING_TYPE |-> "MASTER", SHARDS |-> <<>>,
     HOST |-> "h0", USERNAME |-> "", PASSWORD |-> "", SAVE_ON_FILE_INTERVAL |-> SaveInterval,
     BACKUP_ON_SHUTDOWN |-> "0"]

\* signal_stop has not been started; steps lists what it has done so far
NoShutdown == [pc |-> "idle", session_keys |-> {}, todo |-> {}, steps |-> <<>>]

\* AppState.__new__ followed by the loading of config
NewAppState(config) ==
    [config_store |-> config,
     config_file |-> config,
     data_store |-> EmptyStore,
     indices |-> <<>>,
     expires_store |-> <<>>,
     data_store_cache |-> NoCache,
     data_store_key_command_mapping |-> <<>>,
     data_has_changed |-> FALSE,
     indices_has_changed |-> FALSE,
     data_file |-> EmptyStore,
     indices_file |-> <<>>,
     disk |-> [data |-> "ok", indices |-> "ok"],
     sessions |-> <<>>,
     sub_pub |-> <<>>,
     monitor_subscribers |-> {},
     node_subscribers |-> {},
     node_lite_subscribers |-> {},
     scheduled_tasks |-> <<>>,
     scheduler_file |-> <<>>,
     signal_stop |-> NoShutdown,    \* the task running connection_handler.signal_stop
     stop_event |-> FALSE,          \* connection_handler.stop_event
     backups |-> NoBackups,         \* the latest file of each kind in BACKUP_DIR
     scheduler_alive |-> TRUE,      \* the run_scheduler task has not ended
     save_timer |-> 0]              \* local of run_scheduler

\* no connection: the commands of the specification are handed to the command
\* processor directly
NoSession ==
    [pc |-> "none", wire |-> <<>>, client_sent |-> 0, client_closed |-> FALSE,
     first |-> "", listener |-> "none", processor |-> "none", stop_event |-> FALSE,
     message_queue |-> <<>>, tasks |-> <<>>, sent |-> <<>>, effects |-> <<>>,
     close_code |-> 0]

\* no handler has run yet
NoObs ==
    [cmd |-> "", parts |-> <<>>, reply |-> "", exc |-> "", notify |-> <<>>, repl |-> <<>>,
     fwd |-> <<>>, result |-> {},
     pre |-> [cached |-> {}, expired |-> {}, present |-> {}, net |-> "up", nets |-> <<>>]]

\* the specification keeps no history
Unobserved == [NoObs EXCEPT !.cmd = "unobserved"]

Obs(cmd, parts, r, pre) ==
    IF last = Unobserved THEN last
    ELSE [cmd |-> cmd, parts |-> parts, reply |-> r.reply, exc |-> r.exc, notify |-> r.notify,
          repl |-> r.repl, fwd |-> r.fwd, result |-> r.result, pre |-> pre]

\* what the connection to a peer shard may do during one command
Nets(st) == IF has_sharding(st) THEN {"up", "down", "reject"} ELSE {"up"}

\* the cached commands get_cache still answers at time t
LiveCached(st, t) == {c \in DOMAIN st.data_store_cache : get_cache(st, c, t) # {}}

\* keys_to_remove of cleanup_expired_keys at time t, as a set
ExpiredKeys(st, t) ==
    {st.expires_store[i].key : i \in {j \in 1..Len(st.expires_store) :
                                         st.expires_store[j].expire_at < t}}

\* what held just before the handler ran, and what the peer connection did
Pre(st, t) ==
    [cached |-> LiveCached(st, t),
     expired |-> ExpiredKeys(st, t),
     present |-> {key \in ExpiredKeys(st, t) : HasKey(st.data_store, key)},
     net |-> "up",
     nets |-> <<>>]

PreNet(st, t, net) == [Pre(st, t) EXCEPT !.net = net]

\* the handler returned r: its effects become the state
Deliver(cmd, parts, r, pre) ==
    /\ app_state' = r.st
    /\ last' = Obs(cmd, parts, r, pre)
    /\ UNCHANGED <<now, session, peers>>

\* the same for a command read from the connection
Consume(cmd, parts, r, pre) ==
    /\ app_state' = r.st
    /\ last' = Obs(cmd, parts, r, pre)
    /\ session' = [session EXCEPT !.wire = Tail(@)]
    /\ UNCHANGED <<now, peers>>

----------------------------------------------------------------------------
(* One action per command *)

SetCmd(parts, value, expire) ==
    \E net \in Nets(app_state) :
        Deliver("SET", parts, set_command(app_state, parts, value, expire, now, net),
                PreNet(app_state, now, net))

DelCmd(parts) ==
    \E net \in Nets(app_state) :
        Deliver("DEL", parts, del_command(app_state, parts, net),
                PreNet(app_state, now, net))

RenameCmd(path_parts, new_key) ==
    \E net \in Nets(app_state) :
        Deliver("RENAME", path_parts, rename_command(app_state, path_parts, new_key, net),
                PreNet(app_state, now, net))

IncrCmd(keys, increment) ==
    /\ IncrInRange(app_state, keys, increment)
    /\ \E net \in Nets(app_state) :
           Deliver(IF increment THEN "INCR" ELSE "DECR", keys,
                   incr_decr_command(app_state, keys, increment, net),
                   PreNet(app_state, now, net))

FlushAllCmd ==
    \E net \in Nets(app_state) :
        Deliver("FLUSHALL", <<>>, flush_all_command(app_state, net), Pre(app_state, now))

IndicesCreateCmd(main_key, field, index_type) ==
    Deliver("INDICES CREATE", <<main_key, field>>,
            indices_create(app_state, main_key, field, index_type), Pre(app_state, now))

IndicesDelCmd(main_key, field, value_to_delete) ==
    Deliver("INDICES DEL", <<main_key, field>>,
            indices_del(app_state, main_key, field, value_to_delete), Pre(app_state, now))

IndicesFlushCmd(args) ==
    Deliver("INDICES FLUSH", args, indices_flush(app_state, args), Pre(app_state, now))

QueryCmd(root) ==
    Deliver("QUERY", root, query_command(app_state, root, now), Pre(app_state, now))

----------------------------------------------------------------------------
(* SpecIndex: one collection 'u' with entities '1', '2' and an index on    *)
(* the field 'f', written by SET, DEL and RENAME.                          *)

IxIds == {"1", "2"}
IxValues == {StrNode("a"), ListNode(<<"a", "b">>)}
IxSetPaths == {<<"u", i, "f">> : i \in IxIds} \cup {<<"u", "*", "f">>}
IxDelPaths == IxSetPaths \cup {<<"u", "1">>}

InitIndex ==
    /\ app_state = NewAppState(DefaultConfig)
    /\ now = 0
    /\ last = Unobserved
    /\ peers = NoPeers
    /\ session = NoSession

NextIndex ==
    \/ \E t \in {"string", "set"} : IndicesCreateCmd("u", "f", t)
    \/ \E p \in IxSetPaths, v \in IxValues : SetCmd(p, v, FALSE)
    \/ \E p \in IxDelPaths : DelCmd(p)
    \/ \E p \in IxSetPaths : RenameCmd(p, "g")

SpecIndex == InitIndex /\ [][NextIndex]_vars

\* C1: after any sequence of SET, DEL and RENAME, every live index holds, under
\* every value, the entity keys that rebuilding it from the document tree files there
C1_IndexMatchesRebuild ==
    \A ip \in DOMAIN app_state.indices :
        IndexContent(app_state.indices[ip].values) =
            IndexContent(PopulateIndex(app_state.data_store, ip[1], ip[2],
                                       app_state.indices[ip].type))

----------------------------------------------------------------------------
(* The clock and the scheduler *)

Advance ==
    /\ now < MaxTime
    /\ now' = now + 1
    /\ UNCHANGED <<app_state, last, session, peers>>

\* the scheduler task wakes up and runs one pass of its loop
Tick ==
    /\ is_scheduler_active(app_state)
    /\ app_state.scheduler_alive
    /\ Deliver("TICK", <<>>, run_scheduler(app_state, now), Pre(app_state, now))

----------------------------------------------------------------------------
(* SpecCache: query caching on; SET, DEL and QUERY on the collection 'u'   *)

CachedConfig == [DefaultConfig EXCEPT !.QUERY_CACHING = "1"]

CaSetPaths == {<<"u", "1", "f">>, <<"u", "*", "f">>}
CaDelPaths == {<<"u", "1", "f">>, <<"u", "2", "f">>, <<"u", "*", "f">>}
CaValues == {StrNode("a"), StrNode("b")}
CaRoots == {<<"u">>, <<"u", "1">>}

InitCache ==
    /\ app_state = NewAppState(CachedConfig)
    /\ now = 0
    /\ last = NoObs
    /\ peers = NoPeers
    /\ session = NoSession

NextCache ==
    \/ \E p \in CaSetPaths, v \in CaValues : SetCmd(p, v, FALSE)
    \/ \E p \in CaDelPaths : DelCmd(p)
    \/ \E root \in CaRoots : QueryCmd(root)
    \/ Advance

SpecCache == InitCache /\ [][NextCache]_vars

\* C2: with query caching on, once a SET or DEL on a path under the top-level
\* key k has replied, no cached result of a query rooted at or below k is
\* still returned by a cache lookup
C2_NoCachedResultAfterReply ==
    (last.cmd \in {"SET", "DEL"} /\ last.reply # NoReply)
        => \A c \in LiveCached(app_state, now) : c[1] # last.parts[1]

----------------------------------------------------------------------------
(* SpecTTL: scheduler on; SET with and without EXPIRE, the clock, the      *)
(* scheduler loop                                                          *)

TtlConfig == [DefaultConfig EXCEPT !.SCHEDULER = "1"]

TtlPaths == {<<"u", "1", "f">>, <<"u", "2", "f">>}

InitTTL ==
    /\ app_state = NewAppState(TtlConfig)
    /\ now = 0
    /\ last = NoObs
    /\ peers = NoPeers
    /\ session = NoSession

NextTTL ==
    \/ \E p \in TtlPaths, e \in BOOLEAN : SetCmd(p, StrNode("a"), e)
    \/ SetCmd(<<"u", "1">>, IntNode("1"), FALSE)
    \/ Advance
    \/ Tick

SpecTTL == InitTTL /\ [][NextTTL]_vars

\* C3: after a scheduler tick, every path whose TTL entry had expired strictly
\* before the tick is absent from the document tree, and no ancestor of a path
\* the tick had to remove is left as an empty object
C3_ExpiredPathsGoneAfterTick ==
    last.cmd = "TICK"
        => /\ \A key \in last.pre.expired : ~HasKey(app_state.data_store, key)
           /\ \A key \in last.pre.present :
                  \A i \in 1..(Len(key) - 1) :
                      ~IsEmptyDictAt(app_state.data_store, Prefix(key, i))

----------------------------------------------------------------------------
(* QUERY <collection> WHERE <conditions>.  conditions is the list of the   *)
(* WHERE clause's words: a term [field, op, value] or a connector, which   *)
(* is the record with the word as op and no field.  A result list is the   *)
(* set of the entity keys of its entries (an entry is {'key': id} merged   *)
(* with the entity).                                                       *)

MaxTerms == 3

Connector(word) == [field |-> "", op |-> word, value |-> ""]
IsConnector(part, words) == part.field = "" /\ part.op \in words

\* conditions.replace("AND", "and").replace("OR", "or")
Normalized(conditions) ==
    [i \in 1..Len(conditions) |->
        IF IsConnector(conditions[i], {"AND"}) THEN Connector("and")
        ELSE IF IsConnector(conditions[i], {"OR"}) THEN Connector("or")
        ELSE conditions[i]]

\* condition.split(' OR ') and and_condition.split(' AND '): the pieces between
\* the occurrences of the upper-case word
SplitOn(conditions, word) ==
    LET RECURSIVE go(_, _, _)
        go(i, cur, acc) ==
            IF i > Len(conditions) THEN Append(acc, cur)
            ELSE IF IsConnector(conditions[i], {word}) THEN go(i + 1, <<>>, Append(acc, cur))
            ELSE go(i + 1, Append(cur, conditions[i]), acc)
    IN go(1, <<>>, <<>>)

\* compare_values with op '=' or '!=' and a str on one side: str(value) against
\* str(expected)
compare_values(value, op, expected) ==
    IF op = "=" THEN value = expected ELSE value # expected

\* parse_condition on a piece: the field and the operator of its first term, and
\* as value everything after the operator; the text of a piece of several words
\* is no stored value
eval_single_condition(d, entry, cond) ==
    IF ~HasKey(d, Append(entry, cond[1].field)) THEN FALSE
    ELSE IF Len(cond) > 1 \/ d[Append(entry, cond[1].field)].k = "d"
    THEN cond[1].op # "="
    ELSE compare_values(StrOf(d[Append(entry, cond[1].field)]), cond[1].op, cond[1].value)

eval_and_conditions(d, entry, and_condition) ==
    \A k \in 1..Len(SplitOn(and_condition, "AND")) :
        eval_single_condition(d, entry, SplitOn(and_condition, "AND")[k])

eval_condition(d, entry, condition) ==
    \E k \in 1..Len(SplitOn(condition, "OR")) :
        eval_and_conditions(d, entry, SplitOn(condition, "OR")[k])

\* result is [ids, exc]; {'key': k, **v} needs every entity to be a dict
fallback_full_data_scan(st, main_key, conditions) ==
    IF ~HasKey(st.data_store, <<main_key>>) THEN [ids |-> {}, exc |-> ""]
    ELSE IF ~IsDictAt(st.data_store, <<main_key>>) THEN [ids |-> {}, exc |-> "AttributeError"]
    ELSE IF \E k \in SeqSet(st.data_store[<<main_key>>].v) :
                ~IsDictAt(st.data_store, <<main_key, k>>)
    THEN [ids |-> {}, exc |-> "TypeError"]
    ELSE [ids |-> {k \in SeqSet(st.data_store[<<main_key>>].v) :
                      eval_condition(st.data_store, <<main_key, k>>, conditions)},
          exc |-> ""]

\* matching_ids: id.split(':')[1] of the entity keys filed under the matching values
MatchingIds(info, op, value) ==
    {id[2] : id \in UNION {info.values[x].ids :
                              x \in {y \in DOMAIN info.values : compare_values(y, op, value)}}}

\* the locals of the loop of eval_conditions_using_indices
LoopStart ==
    [current_ids |-> {}, current_logic |-> "and", index_missing |-> FALSE,
     value_missing |-> FALSE]

\* one condition whose index exists; matching is its matching_ids
Combined(acc, matching) ==
    [acc EXCEPT
        !.value_missing = @ \/ matching = {},
        !.current_ids = IF acc.current_logic = "and"
                        THEN (IF @ # {} THEN @ \cap matching ELSE matching)
                        ELSE @ \cup matching]

\* index_missing is never reset: every later condition is skipped as well
RECURSIVE ConditionLoop(_, _, _, _, _)
ConditionLoop(idx, main_key, condition_list, i, acc) ==
    IF i > Len(condition_list) THEN acc
    ELSE IF IsConnector(condition_list[i], {"and", "or"})
    THEN ConditionLoop(idx, main_key, condition_list, i + 1,
                       [acc EXCEPT !.current_logic = condition_list[i].op])
    ELSE IF acc.index_missing \/ <<main_key, condition_list[i].field>> \notin DOMAIN idx
    THEN ConditionLoop(idx, main_key, condition_list, i + 1,
                       [acc EXCEPT !.index_missing = TRUE])
    ELSE ConditionLoop(idx, main_key, condition_list, i + 1,
                       Combined(acc, MatchingIds(idx[<<main_key, condition_list[i].field>>],
                                                 condition_list[i].op,
                                                 condition_list[i].value)))

\* acc is what the loop left; the fallback gets the normalized conditions
IndexedResults(st, conditions, main_key, acc) ==
    IF acc.index_missing \/ (acc.current_ids = {} /\ ~acc.value_missing)
    THEN fallback_full_data_scan(st, main_key, Normalized(conditions))
    ELSE IF \E id \in acc.current_ids :
                HasKey(st.data_store, <<main_key, id>>)
                /\ ~IsDictAt(st.data_store, <<main_key, id>>)
    THEN [ids |-> {}, exc |-> "TypeError"]
    ELSE [ids |-> {id \in acc.current_ids : HasKey(st.data_store, <<main_key, id>>)},
          exc |-> ""]

\* result is [ids, exc]
eval_conditions_using_indices(st, conditions, main_key) ==
    IndexedResults(st, conditions, main_key,
                   ConditionLoop(st.indices, main_key, Normalized(conditions), 1, LoopStart))

\* found is what eval_conditions_using_indices returned
WhereReply(st, found) ==
    IF found.exc # "" THEN Raise(st, found.exc)
    ELSE [Res(st, IF found.ids = {} THEN "[]" ELSE "results") EXCEPT !.result = found.ids]

\* query_command and process_local_query for a root of one key with conditions,
\* query caching off (get_cache is None, add_to_cache returns at once)
query_where_command(st, root, conditions) ==
    IF Descend(st.data_store, root) = "TypeError" THEN Raise(st, "TypeError")
    ELSE IF Descend(st.data_store, root) = "absent" THEN [Res(st, "[]") EXCEPT !.result = {}]
    ELSE WhereReply(st, eval_conditions_using_indices(st, conditions, root[1]))

\* parts = args.split(' ', 1): the root and the conditions of the QUERY frame
\* at the head of the connection
QueryWhereCmd ==
    /\ session.wire # <<>>
    /\ Head(session.wire).cmd = "QUERY"
    /\ ~has_caching(app_state)
    /\ Consume("QUERY WHERE", <<Head(session.wire).key, Head(session.wire).conditions>>,
               query_where_command(app_state, Head(session.wire).key,
                                   Head(session.wire).conditions),
               Pre(app_state, now))

----------------------------------------------------------------------------
(* SpecQuery: eval_conditions_using_indices applied to inputs drawn at the *)
(* start: a collection 'u' of two entities with the fields 'f' and 'g',    *)
(* loaded by SET; set indexes on some of the fields, created by INDICES    *)
(* CREATE; and a WHERE clause of up to MaxTerms equality terms.            *)

QrPaths == <<(<<"u", "1", "f">>), (<<"u", "2", "f">>), (<<"u", "1", "g">>), (<<"u", "2", "g">>)>>
QrValues == {"", "a", "b"}          \* "": the field is not set
QrFields == <<"f", "g">>
QrTerms == [field : {"f", "g"}, op : {"="}, value : {"a", "b"}]

RECURSIVE Predicates(_)
Predicates(n) ==
    IF n = 1 THEN {<<t>> : t \in QrTerms}
    ELSE {p \o <<Connector(w), t>> : p \in Predicates(n - 1), w \in {"AND", "OR"}, t \in QrTerms}

QrPredicates == UNION {Predicates(n) : n \in 1..MaxTerms}

\* SET QrPaths[i] <choice[i]> for every field the choice sets
RECURSIVE Loaded(_, _, _)
Loaded(st, choice, i) ==
    IF i > Len(QrPaths) THEN st
    ELSE IF choice[i] = "" THEN Loaded(st, choice, i + 1)
    ELSE Loaded(set_command(st, QrPaths[i], StrNode(choice[i]), FALSE, 0, "up").st,
                choice, i + 1)

\* INDICES CREATE u:<field> set for every chosen field
RECURSIVE Indexed(_, _, _)
Indexed(st, fields, i) ==
    IF i > Len(QrFields) THEN st
    ELSE IF QrFields[i] \notin fields THEN Indexed(st, fields, i + 1)
    ELSE Indexed(indices_create(st, "u", QrFields[i], "set").st, fields, i + 1)

QueryFrame(root, conditions) ==
    [n |-> 1, kind |-> "text", cmd |-> "QUERY", key |-> root, conditions |-> conditions]

InitQuery ==
    /\ \E choice \in [1..Len(QrPaths) -> QrValues], fields \in SUBSET {"f", "g"} :
           app_state = Indexed(Loaded(NewAppState(DefaultConfig), choice, 1), fields, 1)
    /\ now = 0
    /\ last = NoObs
    /\ peers = NoPeers
    /\ \E conditions \in QrPredicates :
           session = [NoSession EXCEPT !.wire = <<QueryFrame(<<"u">>, conditions)>>]

NextQuery == QueryWhereCmd

SpecQuery == InitQuery /\ [][NextQuery]_vars

\* C4: a WHERE query answered while every index agrees with the collection
\* returns the entities the full scan of the same conditions selects
C4_IndexedEqualsFullScan ==
    (last.cmd = "QUERY WHERE" /\ C1_IndexMatchesRebuild)
        => /\ last.exc = ""
           /\ last.result = fallback_full_data_scan(app_state, last.parts[1][1],
                                                    last.parts[2]).ids

----------------------------------------------------------------------------
(* One WebSocket connection and its WebSocketSession.  A frame is          *)
(* [n, kind, cmd, key]: n numbers the frames in the order the client sent  *)
(* them; kind is "object" (a JSON object, key = <<username, password>>),   *)
(* "json" (JSON that is no object, such as 1) or "text" (a command line).  *)
(* session.sent lists what was written to the connection, session.effects  *)
(* the frames in the order their handlers acted on the state.              *)

MaxFrames == 3

Sid == "s1"

Frame(n, kind, cmd, key) == [n |-> n, kind |-> kind, cmd |-> cmd, key |-> key]

MonitorKey == <<"MONITOR">>
SpecialKeys == {MonitorKey, <<"NODE">>, <<"NODE_LITE">>}

\* websocket.open
IsOpen(s) == s.close_code = 0 /\ ~s.client_closed

\* websocket.send(message) on an open connection
Sent(s, kind, n) == [s EXCEPT !.sent = Append(@, [kind |-> kind, n |-> n])]

\* asyncio.create_task(websocket.send(message)): lost when the connection is closed
SentIfOpen(s, kind, n) == IF IsOpen(s) THEN Sent(s, kind, n) ELSE s

\* WebSocketSession.__init__
\* websocket is the close code of the session's connection, 0 while it is open
Registered(st, sid) ==
    [st EXCEPT !.sessions = PutKey(@, sid, [subscribed_keys |-> {}, websocket |-> 0])]

\* sub_pub[key].discard(sid) for the listed keys; del sub_pub[key] when left empty
Discarded(sub_pub, keys, sid) ==
    [k \in {x \in DOMAIN sub_pub : ~(x \in keys /\ sub_pub[x] \ {sid} = {})} |->
        IF k \in keys THEN sub_pub[k] \ {sid} ELSE sub_pub[k]]

\* session = sessions.pop(sid, None); every key of its subscribed_keys is left
clean_up(st, sid) ==
    IF sid \notin DOMAIN st.sessions THEN st
    ELSE [st EXCEPT
            !.sessions = DropKeys(@, {sid}),
            !.monitor_subscribers =
                IF MonitorKey \in st.sessions[sid].subscribed_keys THEN @ \ {sid} ELSE @,
            !.node_subscribers =
                IF <<"NODE">> \in st.sessions[sid].subscribed_keys THEN @ \ {sid} ELSE @,
            !.node_lite_subscribers =
                IF <<"NODE_LITE">> \in st.sessions[sid].subscribed_keys THEN @ \ {sid} ELSE @,
            !.sub_pub = Discarded(@, st.sessions[sid].subscribed_keys \ SpecialKeys, sid)]

\* the loop of subscribe over keys
RECURSIVE SubscribeKeys(_, _, _, _)
SubscribeKeys(st, keys, sid, i) ==
    IF i > Len(keys) THEN st
    ELSE IF keys[i] = MonitorKey
    THEN SubscribeKeys([st EXCEPT !.monitor_subscribers = @ \cup {sid}], keys, sid, i + 1)
    ELSE IF keys[i] = <<"NODE">>
    THEN SubscribeKeys([st EXCEPT !.node_subscribers = @ \cup {sid}], keys, sid, i + 1)
    ELSE IF keys[i] = <<"NODE_LITE">>
    THEN SubscribeKeys([st EXCEPT !.node_lite_subscribers = @ \cup {sid}], keys, sid, i + 1)
    ELSE SubscribeKeys(
             [st EXCEPT !.sub_pub =
                 PutKey(@, keys[i],
                        (IF keys[i] \in DOMAIN @ THEN @[keys[i]] ELSE {}) \cup {sid})],
             keys, sid, i + 1)

\* looped is the state after the loop; sessions[sid] raises KeyError for a
\* session that is no longer registered.  Result is [st, exc]
SubscribedKeysUpdated(looped, keys, sid) ==
    IF sid \notin DOMAIN looped.sessions THEN [st |-> looped, exc |-> "KeyError"]
    ELSE [st |-> [looped EXCEPT !.sessions[sid].subscribed_keys = @ \cup SeqSet(keys)],
          exc |-> ""]

subscribe(st, keys, sid) == SubscribedKeysUpdated(SubscribeKeys(st, keys, sid, 1), keys, sid)

\* the loop of unsubscribe over keys
RECURSIVE UnsubscribeKeys(_, _, _, _)
UnsubscribeKeys(st, keys, sid, i) ==
    IF i > Len(keys) THEN st
    ELSE IF keys[i] = MonitorKey
    THEN UnsubscribeKeys([st EXCEPT !.monitor_subscribers = @ \ {sid}], keys, sid, i + 1)
    ELSE IF keys[i] = <<"NODE">>
    THEN UnsubscribeKeys([st EXCEPT !.node_subscribers = @ \ {sid}], keys, sid, i + 1)
    ELSE IF keys[i] = <<"NODE_LITE">>
    THEN UnsubscribeKeys([st EXCEPT !.node_lite_subscribers = @ \ {sid}], keys, sid, i + 1)
    ELSE IF keys[i] \in DOMAIN st.sub_pub /\ sid \in st.sub_pub[keys[i]]
    THEN UnsubscribeKeys([st EXCEPT !.sub_pub = Discarded(@, {keys[i]}, sid)],
                         keys, sid, i + 1)
    ELSE UnsubscribeKeys(st, keys, sid, i + 1)

\* result is [st, exc]
SubscribedKeysReduced(looped, keys, sid) ==
    IF sid \notin DOMAIN looped.sessions THEN [st |-> looped, exc |-> "KeyError"]
    ELSE [st |-> [looped EXCEPT !.sessions[sid].subscribed_keys = @ \ SeqSet(keys)],
          exc |-> ""]

unsubscribe(st, keys, sid) ==
    SubscribedKeysReduced(UnsubscribeKeys(st, keys, sid, 1), keys, sid)

\* ujson.loads(message) and auth_data.get(...): the value returned or the
\* exception raised
check_credentials(frame, expected_username, expected_password) ==
    CASE frame.kind = "text" -> "JSONDecodeError"
      [] frame.kind = "json" -> "AttributeError"
      [] OTHER -> IF frame.key = <<expected_username, expected_password>>
                  THEN "True" ELSE "False"

\* an exception leaves start() through `except Exception` and `finally`; the
\* handler returns and the server closes the connection normally
StartEnded(st, s) ==
    [st |-> clean_up(st, Sid),
     s |-> [s EXCEPT !.pc = "done", !.close_code = IF IsOpen(s) THEN 1000 ELSE @]]

\* authenticate() returned: asyncio.gather(listen_for_messages(), process_messages())
Serving(st, s) ==
    [st |-> st, s |-> [s EXCEPT !.pc = "serve", !.listener = "running",
                                !.processor = "running"]]

\* websocket.send('MginDB server connected... Welcome!'); break
Welcome(st, s) ==
    IF IsOpen(s) THEN Serving(st, Sent(s, "welcome", 0)) ELSE StartEnded(st, s)

\* s has the first frame taken off the connection; check is what
\* check_credentials gave
Authenticated(st, s, check) ==
    IF st.config_store.USERNAME = "" /\ st.config_store.PASSWORD = ""
    THEN Welcome(st, [s EXCEPT !.first = "unchecked"])
    ELSE IF check = "True" THEN Welcome(st, [s EXCEPT !.first = "match"])
    ELSE IF check = "AttributeError" THEN StartEnded(st, [s EXCEPT !.first = "not_object"])
    ELSE IF ~IsOpen(s)                                   \* send raises ConnectionClosed
    THEN StartEnded(st, [s EXCEPT !.first = IF check = "False" THEN "mismatch"
                                            ELSE "not_json"])
    ELSE IF check = "False"
    THEN Serving(st, [Sent(s, "auth_failed", 0) EXCEPT !.first = "mismatch",
                                                       !.close_code = 1008])
    \* JSONDecodeError: message, close(1008), return False; the send of
    \* authenticate then raises ConnectionClosed
    ELSE StartEnded(st, [Sent(s, "no_credentials", 0) EXCEPT !.first = "not_json",
                                                             !.close_code = 1008])

\* notify_monitors(command_line, sid), with this session the only one
notify_monitors(st, s, n) ==
    IF Sid \in st.monitor_subscribers /\ Sid \in DOMAIN st.sessions
    THEN SentIfOpen(s, "monitor", n) ELSE s

\* the notifications of a handler result that go to this session
Notified(s, r, n) ==
    IF \E i \in 1..Len(r.notify) : Sid \in r.notify[i].sids
    THEN SentIfOpen(s, "notify", n) ELSE s

\* if response_command: asyncio.create_task(self.websocket.send(response))
Replied(s, reply, n) == IF reply = NoReply THEN s ELSE SentIfOpen(s, "reply", n)

\* task i has run its handler
TaskDone(s, i, n) == [s EXCEPT !.tasks[i].pc = "done", !.effects = Append(@, n)]

\* the client writes a frame to the connection
ClientSend(kind, cmd, key) ==
    /\ session.pc # "none"
    /\ IsOpen(session)
    /\ session.client_sent < MaxFrames
    /\ session' = [session EXCEPT
                      !.wire = Append(@, Frame(session.client_sent + 1, kind, cmd, key)),
                      !.client_sent = @ + 1]
    /\ UNCHANGED <<app_state, now, last, peers>>

\* the client closes the connection
ClientClose ==
    /\ session.pc # "none"
    /\ ~session.client_closed
    /\ session' = [session EXCEPT !.client_closed = TRUE]
    /\ UNCHANGED <<app_state, now, last, peers>>

\* a is the [st, s] a step of the session leaves
Stepped(a) ==
    /\ app_state' = a.st
    /\ session' = a.s
    /\ UNCHANGED <<now, last, peers>>

\* authenticate(): the first frame arrives
Authenticate ==
    /\ session.pc = "authenticate"
    /\ session.wire # <<>>
    /\ Stepped(Authenticated(app_state, [session EXCEPT !.wire = Tail(@)],
                             check_credentials(Head(session.wire),
                                               app_state.config_store.USERNAME,
                                               app_state.config_store.PASSWORD)))

\* authenticate(): the connection closes before any frame arrived
AuthenticateClosed ==
    /\ session.pc = "authenticate"
    /\ session.wire = <<>>
    /\ session.client_closed
    /\ Stepped(Serving(app_state, session))

\* listen_for_messages: a frame arrives and enqueue_message puts it in the queue;
\* a connection the server has closed delivers nothing more
Listen ==
    /\ session.pc = "serve"
    /\ session.listener = "running"
    /\ session.close_code = 0
    /\ session.wire # <<>>
    /\ session' = [session EXCEPT !.wire = Tail(@),
                                  !.message_queue = Append(@, Head(session.wire))]
    /\ UNCHANGED <<app_state, now, last, peers>>

\* listen_for_messages: the connection is closed; finally: stop_event.set(), clean_up()
ListenEnds ==
    /\ session.pc = "serve"
    /\ session.listener = "running"
    /\ session.close_code # 0 \/ (session.wire = <<>> /\ session.client_closed)
    /\ Stepped([st |-> clean_up(app_state, Sid),
                s |-> [session EXCEPT !.listener = "ended", !.stop_event = TRUE]])

\* process_messages: message_queue.get(); asyncio.create_task(process_message(message))
ProcessMessages ==
    /\ session.pc = "serve"
    /\ session.processor = "running"
    /\ session.message_queue # <<>>
    /\ session' = [session EXCEPT
                      !.message_queue = Tail(@),
                      !.tasks = Append(@, [frame |-> Head(session.message_queue),
                                           pc |-> "created"])]
    /\ UNCHANGED <<app_state, now, last, peers>>

\* process_messages: stop_event is set and the queue is empty
ProcessMessagesEnds ==
    /\ session.pc = "serve"
    /\ session.processor = "running"
    /\ session.stop_event
    /\ session.message_queue = <<>>
    /\ session' = [session EXCEPT !.processor = "ended"]
    /\ UNCHANGED <<app_state, now, last, peers>>

\* start(): gather returned; finally: clean_up()
StartReturns ==
    /\ session.pc = "serve"
    /\ session.listener = "ended"
    /\ session.processor = "ended"
    /\ Stepped(StartEnded(app_state, session))

\* r is what the coroutine handler of task i returned
InlineHandled(s, i, r) ==
    [st |-> r.st,
     s |-> Replied(Notified(TaskDone(s, i, s.tasks[i].frame.n), r, s.tasks[i].frame.n),
                   r.reply, s.tasks[i].frame.n)]

\* process_command: notify_if_sid, then execute_command.  SUB and UNSUB are
\* plain functions and go to the thread executor; SET is awaited in place; a
\* word that is no command gives None.  s is the session after notify_monitors
Executed(st, s, i, t) ==
    IF s.tasks[i].frame.kind = "text" /\ s.tasks[i].frame.cmd \in {"SUB", "UNSUB"}
    THEN [st |-> st, s |-> [s EXCEPT !.tasks[i].pc = "thread"]]
    ELSE IF s.tasks[i].frame.kind = "text" /\ s.tasks[i].frame.cmd = "SET"
    THEN InlineHandled(s, i, set_command(st, s.tasks[i].frame.key, StrNode("a"), FALSE, t, "up"))
    ELSE [st |-> st, s |-> [s EXCEPT !.tasks[i].pc = "done"]]

\* the event loop runs the tasks in the order they were created, each up to
\* the point where it waits for something outside the loop
ProcessMessage(i) ==
    /\ i \in 1..Len(session.tasks)
    /\ session.tasks[i].pc = "created"
    /\ \A j \in 1..(i - 1) : session.tasks[j].pc # "created"
    /\ Stepped(Executed(app_state, notify_monitors(app_state, session, session.tasks[i].frame.n),
                        i, now))

\* res is the [st, exc] of subscribe or unsubscribe
ThreadHandled(s, i, res) ==
    [st |-> res.st,
     s |-> Replied(TaskDone(s, i, s.tasks[i].frame.n),
                   IF res.exc = "" THEN "OK" ELSE NoReply, s.tasks[i].frame.n)]

\* a worker thread of the executor runs the function of task i, and the task
\* resumes with its result
RunInExecutor(i) ==
    /\ i \in 1..Len(session.tasks)
    /\ session.tasks[i].pc = "thread"
    /\ Stepped(ThreadHandled(session, i,
                             IF session.tasks[i].frame.cmd = "SUB"
                             THEN subscribe(app_state, <<session.tasks[i].frame.key>>, Sid)
                             ELSE unsubscribe(app_state, <<session.tasks[i].frame.key>>, Sid)))

----------------------------------------------------------------------------
(* SpecSession: one client, with and without credentials configured, that  *)
(* sends up to MaxFrames frames and may close the connection at any time   *)

AuthConfig == [DefaultConfig EXCEPT !.USERNAME = "admin", !.PASSWORD = "pw"]

SubKey == <<"u", "1", "f">>

ClientFrames ==
    {Frame(0, "object", "", <<"admin", "pw">>), Frame(0, "object", "", <<"admin", "x">>),
     Frame(0, "json", "", <<>>),
     Frame(0, "text", "SUB", SubKey), Frame(0, "text", "UNSUB", SubKey),
     Frame(0, "text", "SUB", MonitorKey), Frame(0, "text", "SET", SubKey)}

NewSession == [NoSession EXCEPT !.pc = "authenticate"]

InitSession ==
    /\ \E config \in {DefaultConfig, AuthConfig} :
           app_state = Registered(NewAppState(config), Sid)
    /\ now = 0
    /\ last = Unobserved
    /\ peers = NoPeers
    /\ session = NewSession

NextSession ==
    \/ \E f \in ClientFrames : ClientSend(f.kind, f.cmd, f.key)
    \/ ClientClose
    \/ Authenticate
    \/ AuthenticateClosed
    \/ Listen
    \/ ListenEnds
    \/ ProcessMessages
    \/ ProcessMessagesEnds
    \/ StartReturns
    \/ \E i \in 1..MaxFrames : ProcessMessage(i)
    \/ \E i \in 1..MaxFrames : RunInExecutor(i)

SpecSession == InitSession /\ [][NextSession]_vars

\* the numbers of the frames in seq are in increasing order
Ascending(seq) == \A i, j \in 1..Len(seq) : i < j => seq[i] < seq[j]

Replies(s) == SelectSeq(s.sent, LAMBDA m : m.kind = "reply")

\* C5: within one session the handlers act in the order the frames arrived, and
\* the replies are sent in that order
C5_SessionOrder ==
    /\ Ascending(session.effects)
    /\ Ascending([i \in 1..Len(Replies(session)) |-> Replies(session)[i].n])

SentKinds(s) == {s.sent[i].kind : i \in 1..Len(s.sent)}

\* C6: with credentials configured, a session whose first frame does not carry
\* them never has a frame handed to the command processor and never gets the
\* welcome; when it has ended with the client still connected it was sent an
\* authentication-failure message and was closed with code 1008; and the welcome
\* goes only to a session whose first frame matched
C6_AuthenticationGate ==
    (app_state.config_store.USERNAME # "" \/ app_state.config_store.PASSWORD # "")
        => /\ "welcome" \in SentKinds(session) => session.first = "match"
           /\ session.first \in {"mismatch", "not_json", "not_object"}
                  => /\ session.tasks = <<>>
                     /\ session.message_queue = <<>>
                     /\ (session.pc = "done" /\ ~session.client_closed)
                            => /\ SentKinds(session) \cap {"auth_failed", "no_credentials"} # {}
                               /\ session.close_code = 1008

\* C7: once the session has ended, its queue is empty and every task of it has
\* finished, its sid is in no subscriber set and not in the session registry
C7_NoSubscriptionAfterDisconnect ==
    (/\ session.pc = "done"
     /\ session.message_queue = <<>>
     /\ \A i \in 1..Len(session.tasks) : session.tasks[i].pc = "done")
        => /\ Sid \notin DOMAIN app_state.sessions
           /\ \A k \in DOMAIN app_state.sub_pub : Sid \notin app_state.sub_pub[k]
           /\ Sid \notin app_state.monitor_subscribers
           /\ Sid \notin app_state.node_subscribers
           /\ Sid \notin app_state.node_lite_subscribers

----------------------------------------------------------------------------
(* SpecRepl: a replication master with two slaves, scheduler on or off,    *)
(* and every mutating command                                              *)

ReplConfigs ==
    {[DefaultConfig EXCEPT !.REPLICATION = "1", !.REPLICATION_SLAVES = <<"r1", "r2">>,
                           !.SCHEDULER = sch] : sch \in {"0", "1"}}

RpField == <<"u", "1", "f">>
RpCounter == <<"u", "1", "n">>

InitRepl ==
    /\ \E config \in ReplConfigs : app_state = NewAppState(config)
    /\ now = 0
    /\ last = NoObs
    /\ peers = NoPeers
    /\ session = NoSession

NextRepl ==
    \/ \E e \in BOOLEAN : SetCmd(RpField, StrNode("a"), e)
    \/ \E p \in {RpField, <<"u", "1">>} : DelCmd(p)
    \/ \E increment \in BOOLEAN : IncrCmd(RpCounter, increment)
    \/ RenameCmd(RpField, "g")
    \/ FlushAllCmd
    \/ IndicesCreateCmd("u", "f", "set")
    \/ IndicesDelCmd("u", "f", "a")
    \/ \E args \in {<<"u">>, <<"u", "f">>} : IndicesFlushCmd(args)

SpecRepl == InitRepl /\ [][NextRepl]_vars

MutatingCommands ==
    {"SET", "DEL", "INCR", "DECR", "RENAME", "FLUSHALL",
     "INDICES CREATE", "INDICES DEL", "INDICES FLUSH"}

\* the replies of the mutating commands that report success
SuccessReplies ==
    {"OK", "All indices and data flushed successfully."}
    \cup {"Updated " \o NumStr(n) \o " entries." : n \in 0..2}
    \cup {"Deleted " \o NumStr(n) \o " entries." : n \in 0..2}
    \cup {"RENAME successful: " \o NumStr(n) \o " keys renamed." : n \in 0..2}

\* C8: on a replication master, a mutating command that reported success was
\* sent to the slaves as the same command on the same path
C8_SuccessfulMutationReplicated ==
    (/\ has_replication_is_replication_master(app_state)
     /\ last.cmd \in MutatingCommands
     /\ last.exc = ""
     /\ last.reply \in SuccessReplies)
        => /\ Len(last.repl) = 1
           /\ last.repl[1].cmd = last.cmd
           /\ last.repl[1].parts = last.parts

----------------------------------------------------------------------------
(* SpecShard: a sharding master 'h0' with one peer 'h1'; the entity 'u:1'  *)
(* lives on the master and 'u:2' on the peer                               *)

ShardConfig == [DefaultConfig EXCEPT !.SHARDING = "1", !.SHARDS = <<"h0", "h1">>]

ShIds == {"1", "2"}
ShValues == {StrNode("a"), StrNode("b")}

InitShard ==
    /\ app_state = NewAppState(ShardConfig)
    /\ now = 0
    /\ last = NoObs
    /\ peers = NoPeers
    /\ session = NoSession

NextShard ==
    \/ \E i \in ShIds, v \in ShValues : SetCmd(<<"u", i, "f">>, v, FALSE)
    \/ \E i \in ShIds : DelCmd(<<"u", i, "f">>)
    \/ \E i \in ShIds, increment \in BOOLEAN : IncrCmd(<<"u", i, "n">>, increment)
    \/ \E i \in ShIds : RenameCmd(<<"u", i, "f">>, "g")
    \/ IndicesCreateCmd("u", "f", "string")

SpecShard == InitShard /\ [][NextShard]_vars

SingleKeyCommands == {"SET", "DEL", "INCR", "DECR", "RENAME"}

\* the command of this step was for a key of another shard, and the peer was
\* unreachable or answered the credentials with a refusal
RemoteShardFailed ==
    /\ has_sharding_is_sharding_master(app_state)
    /\ last'.cmd \in SingleKeyCommands
    /\ get_shard(app_state, ShardingKey(last'.parts)) # app_state.config_store.HOST
    /\ last'.pre.net \in {"down", "reject"}

\* C9: on a sharding master, a single-key SET, DEL, INCR, DECR or RENAME whose
\* shard is unreachable or rejects the credentials is answered
\* 'ERROR: Sharding failed' and leaves the master's tree, indices and cache alone
C9_ShardFailureReported ==
    [][RemoteShardFailed
          => /\ last'.reply = "ERROR: Sharding failed"
             /\ app_state'.data_store = app_state.data_store
             /\ app_state'.indices = app_state.indices
             /\ app_state'.data_store_cache = app_state.data_store_cache]_vars

----------------------------------------------------------------------------
(* BACKUP: backup_data, backup_restore, backup_rollback.  app_state.backups *)
(* holds the newest backup of each kind, which is what get_latest_backup   *)
(* picks.                                                                  *)

\* a kind is backed up when the server holds something of it
backup_data(st) ==
    [st EXCEPT !.backups =
        [data |-> IF st.data_store[<<>>].v # <<>> THEN <<st.data_store>>
                  ELSE st.backups.data,
         indices |-> IF DOMAIN st.indices # {} THEN <<st.indices>> ELSE st.backups.indices,
         scheduler |-> IF st.scheduled_tasks # <<>> THEN <<st.scheduled_tasks>>
                       ELSE st.backups.scheduler]]

\* json.load of what json.dump wrote: objects, strings, ints and lists of
\* strings come back as they were
JsonLoaded(d) ==
    [q \in DOMAIN d |->
        CASE d[q].k = "d" -> DictNode(d[q].v)
          [] d[q].k = "s" -> StrNode(d[q].v[1])
          [] d[q].k = "i" -> IntNode(d[q].v[1])
          [] OTHER -> ListNode(d[q].v)]

\* data_store.update(loaded): the top-level keys of loaded replace those held
StoreUpdated(d, loaded) ==
    [q \in {x \in DOMAIN d : Len(x) > 0 /\ ~HasKey(loaded, <<x[1]>>)} \cup DOMAIN loaded |->
        IF q = <<>>
        THEN DictNode(d[<<>>].v \o SelectSeq(loaded[<<>>].v, LAMBDA k : ~InSeq(k, d[<<>>].v)))
        ELSE IF HasKey(loaded, q) THEN loaded[q]
        ELSE d[q]]

\* a file that is no JSON document is reported and nothing is loaded
load_data(st) ==
    IF st.data_file = PartialFile THEN st
    ELSE [st EXCEPT !.data_store = StoreUpdated(st.data_store, JsonLoaded(st.data_file))]

\* serialize_indices wrote every set as a list; deserialize_indices turns a
\* list back into a set only when all its items are numbers: a list of entity
\* keys stays a list, an empty one becomes a set
deserialize_indices(idx) ==
    [ip \in DOMAIN idx |->
        [type |-> idx[ip].type,
         values |-> [x \in DOMAIN idx[ip].values |->
                        IF idx[ip].values[x].kind = "str" THEN idx[ip].values[x]
                        ELSE Bucket(IF idx[ip].values[x].ids = {} THEN "set" ELSE "list",
                                    idx[ip].values[x].ids)]]]

\* indices.update(loaded): the collections of loaded replace those held
IndicesUpdated(idx, loaded) ==
    [ip \in {x \in DOMAIN idx : x[1] \notin IndexCollections(loaded)} \cup DOMAIN loaded |->
        IF ip \in DOMAIN loaded THEN loaded[ip] ELSE idx[ip]]

load_indices(st) ==
    IF st.indices_file = PartialFile THEN st
    ELSE [st EXCEPT !.indices = IndicesUpdated(st.indices, deserialize_indices(st.indices_file))]

\* the backup file is copied over the live file, which is then loaded; the
\* scheduler file is only copied
backup_restore(st, kind) ==
    CASE kind = "data" -> load_data([st EXCEPT !.data_file = st.backups.data[1]])
      [] kind = "indices" -> load_indices([st EXCEPT !.indices_file = st.backups.indices[1]])
      [] OTHER -> st

backup_rollback(st) ==
    IF st.backups.data = <<>> \/ st.backups.indices = <<>> \/ st.backups.scheduler = <<>>
    THEN [st |-> st, result |-> "ERROR: No backup files available for rollback."]
    ELSE [st |-> backup_restore(backup_restore(backup_restore(st, "data"), "indices"),
                                "scheduler"),
          result |-> "Rollback completed"]

----------------------------------------------------------------------------
(* SCHEDULE ADD / DEL / FLUSH *)

\* the place of the schedule in scheduled_tasks, 0 when it is not a key
ScheduleAt(tasks, schedule) ==
    IF \E i \in 1..Len(tasks) : tasks[i].schedule = schedule
    THEN CHOOSE i \in 1..Len(tasks) : tasks[i].schedule = schedule
    ELSE 0

\* tasks[key] = task on the dict of one schedule
TaskPut(tasks, task) ==
    IF \E j \in 1..Len(tasks) : tasks[j].key = task.key
    THEN [j \in 1..Len(tasks) |-> IF tasks[j].key = task.key THEN task ELSE tasks[j]]
    ELSE Append(tasks, task)

\* SCHEDULE ADD <schedule> COMMAND(<command>); key is the second word of the
\* command
add_schedule_task(st, schedule, command, key, t) ==
    Res([st EXCEPT !.scheduled_tasks =
            IF ScheduleAt(@, schedule) = 0
            THEN Append(@, [schedule |-> schedule,
                            tasks |-> <<[key |-> key, command |-> command, last |-> 0,
                                         next |-> calculate_next_run(schedule, t)]>>])
            ELSE [@ EXCEPT ![ScheduleAt(st.scheduled_tasks, schedule)].tasks =
                     TaskPut(@, [key |-> key, command |-> command, last |-> 0,
                                 next |-> calculate_next_run(schedule, t)])]],
        "OK")

\* the first schedule, in the order of the dict, that has the key; 0 if none
FirstWithKey(tasks, key) ==
    IF \E i \in 1..Len(tasks) : \E j \in 1..Len(tasks[i].tasks) : tasks[i].tasks[j].key = key
    THEN CHOOSE i \in 1..Len(tasks) :
             /\ \E j \in 1..Len(tasks[i].tasks) : tasks[i].tasks[j].key = key
             /\ \A h \in 1..(i - 1) : \A j \in 1..Len(tasks[h].tasks) : tasks[h].tasks[j].key # key
    ELSE 0

\* del tasks[key], and the schedule with it when nothing is left
TaskDeleted(tasks, i, key) ==
    IF Len(tasks[i].tasks) = 1 THEN SelectSeq(tasks, LAMBDA x : x.schedule # tasks[i].schedule)
    ELSE [tasks EXCEPT ![i].tasks = SelectSeq(tasks[i].tasks, LAMBDA x : x.key # key)]

\* SCHEDULE DEL <key>
delete_schedule_task(st, key) ==
    IF FirstWithKey(st.scheduled_tasks, key) = 0
    THEN Res(st, "ERROR: Task with key " \o key \o " not found")
    ELSE Res([st EXCEPT !.scheduled_tasks =
                 TaskDeleted(@, FirstWithKey(st.scheduled_tasks, key), key)], "OK")

\* SCHEDULE FLUSH ALL
flush_all_schedules(st) == Res([st EXCEPT !.scheduled_tasks = <<>>], "OK")

\* SCHEDULE FLUSH <schedule>; None when the schedule is not there
flush_specific_schedule(st, schedule) ==
    IF ScheduleAt(st.scheduled_tasks, schedule) = 0 THEN Res(st, "None")
    ELSE Res([st EXCEPT !.scheduled_tasks = SelectSeq(@, LAMBDA x : x.schedule # schedule)],
             "OK")

\* r is the result of the action on an active scheduler
schedule_command(st, r) ==
    IF ~is_scheduler_active(st)
    THEN Res(st, "Scheduler is not active. Run the command CONFIG SET SCHEDULER 1 to activate")
    ELSE r

ScheduleAdd(schedule, command, key) ==
    Deliver("SCHEDULE ADD", <<schedule, key>>,
            schedule_command(app_state, add_schedule_task(app_state, schedule, command, key, now)),
            Pre(app_state, now))

ScheduleAddCmd == ScheduleAdd("* * * * *", "SET k a", "k")

ScheduleDel(key) ==
    Deliver("SCHEDULE DEL", <<key>>,
            schedule_command(app_state, delete_schedule_task(app_state, key)),
            Pre(app_state, now))

ScheduleFlush(detail) ==
    Deliver("SCHEDULE FLUSH", <<detail>>,
            schedule_command(app_state,
                             IF detail = "ALL" THEN flush_all_schedules(app_state)
                             ELSE flush_specific_schedule(app_state, detail)),
            Pre(app_state, now))

----------------------------------------------------------------------------
(* RESHARD.  ps is the state of the other shard servers; nets says what    *)
(* the connection to each of them does for the length of one RESHARD.      *)

is_sharding_master(st) == st.config_store.SHARDING_TYPE = "MASTER"

\* data_has_changed = indices_has_changed = True; save_data(); save_indices();
\* backup_data()
SavedAndBackedUp(st) ==
    backup_data(save_indices(save_data(
        [st EXCEPT !.data_has_changed = TRUE, !.indices_has_changed = TRUE])))

\* data_store.clear(); indices.clear(); both saved
Cleared(st) ==
    save_indices(save_data(
        [st EXCEPT !.data_store = EmptyStore, !.indices = <<>>,
                   !.data_has_changed = TRUE, !.indices_has_changed = TRUE]))

\* reshard_command on a server that is not the sharding master: it answers
\* with all it holds and keeps nothing
ReshardPeer(st) == Cleared(SavedAndBackedUp(st))

\* broadcast_query_with_response_tracking: the shards that answered RESHARD
responsive_shards(st, nets) == SelectSeq(OtherShards(st), LAMBDA h : nets[h] = "up")

PeersAsked(st, ps, nets) ==
    [h \in DOMAIN ps |-> IF InSeq(h, OtherShards(st)) /\ nets[h] = "up"
                         THEN ReshardPeer(ps[h]) ELSE ps[h]]

\* all_data, all_indices: what each shard sent ({} for a silent one), then
\* what the master holds
AllData(st, ps, nets) ==
    [i \in 1..Len(OtherShards(st)) |->
        IF nets[OtherShards(st)[i]] = "up" THEN ps[OtherShards(st)[i]].data_store
        ELSE EmptyStore] \o <<st.data_store>>

AllIndices(st, ps, nets) ==
    [i \in 1..Len(OtherShards(st)) |->
        IF nets[OtherShards(st)[i]] = "up" THEN ps[OtherShards(st)[i]].indices
        ELSE <<>>] \o <<st.indices>>

\* deep_merge_dict(target, source) at one key
MergedNode(t, s, q) ==
    IF ~HasKey(s, q) THEN t[q]
    ELSE IF ~HasKey(t, q) THEN s[q]
    ELSE IF IsDictAt(t, q) /\ IsDictAt(s, q)
    THEN DictNode(t[q].v \o SelectSeq(s[q].v, LAMBDA k : ~InSeq(k, t[q].v)))
    ELSE IF t[q].k = "l" /\ s[q].k = "l" THEN ListNode(t[q].v \o s[q].v)
    ELSE s[q]

\* what lies in target under a key that source holds as a non-dict is replaced
deep_merge_dict(t, s) ==
    [q \in {x \in DOMAIN t : \A i \in 0..(Len(x) - 1) :
                HasKey(s, Prefix(x, i)) => s[Prefix(x, i)].k = "d"} \cup DOMAIN s |->
        MergedNode(t, s, q)]

RECURSIVE MergeFrom(_, _, _)
MergeFrom(merged, all_data, i) ==
    IF i > Len(all_data) THEN merged
    ELSE MergeFrom(deep_merge_dict(merged, all_data[i]), all_data, i + 1)

merge_data(all_data) == MergeFrom(EmptyStore, all_data, 1)

\* convert_sets_to_lists on one index
ListedIndex(info) ==
    [type |-> info.type,
     values |-> [x \in DOMAIN info.values |->
                    IF info.values[x].kind = "str" THEN info.values[x]
                    ELSE Bucket("list", info.values[x].ids)]]

\* deep_merge_dict on two buckets: lists are extended, anything else replaced
MergedBucket(a, b) ==
    IF a.kind = "list" /\ b.kind = "list" THEN Bucket("list", a.ids \cup b.ids) ELSE b

MergedIndex(a, b) ==
    [type |-> b.type,
     values |-> [x \in DOMAIN a.values \cup DOMAIN b.values |->
                    IF x \notin DOMAIN b.values THEN a.values[x]
                    ELSE IF x \notin DOMAIN a.values THEN b.values[x]
                    ELSE MergedBucket(a.values[x], b.values[x])]]

MergedIndices(a, b) ==
    [ip \in DOMAIN a \cup DOMAIN b |->
        IF ip \notin DOMAIN b THEN a[ip]
        ELSE IF ip \notin DOMAIN a THEN ListedIndex(b[ip])
        ELSE MergedIndex(a[ip], ListedIndex(b[ip]))]

RECURSIVE MergeIndicesFrom(_, _, _)
MergeIndicesFrom(merged, all_indices, i) ==
    IF i > Len(all_indices) THEN merged
    ELSE MergeIndicesFrom(MergedIndices(merged, all_indices[i]), all_indices, i + 1)

merge_indices(all_indices) == MergeIndicesFrom(<<>>, all_indices, 1)

\* the keys redistribute_data makes a SET for: 'key:sub_key' for every member
\* of a top-level dict, 'key' for any other top-level value
RECURSIVE KeysFrom(_, _)
KeysFrom(data, i) ==
    IF i > Len(data[<<>>].v) THEN <<>>
    ELSE (IF data[<<data[<<>>].v[i]>>].k = "d"
          THEN [j \in 1..Len(data[<<data[<<>>].v[i]>>].v) |->
                   <<data[<<>>].v[i], data[<<data[<<>>].v[i]>>].v[j]>>]
          ELSE <<(<<data[<<>>].v[i]>>)>>) \o KeysFrom(data, i + 1)

\* set_specific_key with a JSON object: set_individual_key for every member
\* (the members of the modelled entities are leaves)
RECURSIVE SetMembers(_, _, _, _)
SetMembers(st, parts, data, i) ==
    IF i > Len(data[parts].v) THEN st
    ELSE SetMembers(set_individual_key(st, Append(parts, data[parts].v[i]),
                                       data[Append(parts, data[parts].v[i])]).st,
                    parts, data, i + 1)

\* parse_value_instructions on the JSON object of an entity: with a member
\* 'value' the value to set is that member, and value.strip() raises
\* AttributeError unless it is a str
SetValueRaises(parts, data) ==
    /\ data[parts].k = "d"
    /\ InSeq("value", data[parts].v)
    /\ data[Append(parts, "value")].k # "s"

\* 'SET key value' of process_batch on the server that gets it (the command
\* processor process_batch constructs is taken to be the server's own)
SetRedistributed(st, parts, data) ==
    IF data[parts].k # "d" THEN set_individual_key(st, parts, data[parts]).st
    ELSE IF ~InSeq("value", data[parts].v) THEN SetMembers(st, parts, data, 1)
    ELSE IF SetValueRaises(parts, data) THEN st
    ELSE set_individual_key(st, parts, data[Append(parts, "value")]).st

\* process_batch for every key: the SET runs here when the shard of the key
\* is this host, on the shard otherwise
RECURSIVE Redistributed(_, _, _, _, _)
Redistributed(m, ps, data, keys, i) ==
    IF i > Len(keys) THEN [m |-> m, ps |-> ps]
    ELSE IF get_shard(m, keys[i]) = m.config_store.HOST /\ SetValueRaises(keys[i], data)
    THEN [m |-> m, ps |-> ps]      \* "Redistribution failed": the rest is not sent
    ELSE IF get_shard(m, keys[i]) = m.config_store.HOST
    THEN Redistributed(SetRedistributed(m, keys[i], data), ps, data, keys, i + 1)
    ELSE Redistributed(m, [h \in DOMAIN ps |-> IF h = get_shard(m, keys[i])
                                               THEN SetRedistributed(ps[h], keys[i], data)
                                               ELSE ps[h]],
                       data, keys, i + 1)

redistribute_data(m, ps, data) ==
    IF m.config_store.SHARDING = "0"
    THEN [m |-> save_data([m EXCEPT !.data_store = data, !.data_has_changed = TRUE]),
          ps |-> ps]
    ELSE Redistributed(m, ps, data, KeysFrom(data, 1), 1)

\* create_index_command: INDICES CREATE path type on every shard of SHARDS
CreatedEverywhere(c, ip, index_type) ==
    [m |-> IF InSeq(c.m.config_store.HOST, c.m.config_store.SHARDS)
           THEN indices_create(c.m, ip[1], ip[2], index_type).st ELSE c.m,
     ps |-> [h \in DOMAIN c.ps |->
                IF InSeq(h, c.m.config_store.SHARDS)
                THEN indices_create(c.ps[h], ip[1], ip[2], index_type).st ELSE c.ps[h]]]

RECURSIVE process_indices(_, _, _)
process_indices(c, indices, todo) ==
    IF todo = {} THEN c
    ELSE process_indices(CreatedEverywhere(c, CHOOSE ip \in todo : TRUE,
                                           indices[CHOOSE ip \in todo : TRUE].type),
                         indices, todo \ {CHOOSE ip \in todo : TRUE})

redistribute_indices(c, indices) ==
    IF c.m.config_store.SHARDING = "0"
    THEN [m |-> save_indices([c.m EXCEPT !.indices = indices, !.indices_has_changed = TRUE]),
          ps |-> c.ps]
    ELSE process_indices(c, indices, DOMAIN indices)

\* the reply is ujson.dumps of the message
ReshardCompleted(c) ==
    [r |-> Res(c.m, "\"Resharding completed successfully.\""), ps |-> c.ps]

ReshardFailed(rolled, ps) ==
    [r |-> Res(rolled.st,
               "\"Resharding failed Not all shards responded, cannot complete resharding., "
               \o "rolled back. " \o rolled.result \o "\""),
     ps |-> ps]

\* st has been saved and backed up by reshard_command
reshard(st, ps, nets) ==
    IF \/ OtherShards(st) = <<>>
       \/ /\ Len(st.config_store.SHARDS) > 1
          /\ Len(responsive_shards(st, nets)) = Len(OtherShards(st))
    THEN ReshardCompleted(
             redistribute_indices(
                 redistribute_data(Cleared(st), PeersAsked(st, ps, nets),
                                   merge_data(AllData(st, ps, nets))),
                 merge_indices(AllIndices(st, ps, nets))))
    ELSE ReshardFailed(backup_rollback(Cleared(st)), PeersAsked(st, ps, nets))

reshard_command(st, ps, nets) ==
    IF is_sharding_master(st) THEN reshard(SavedAndBackedUp(st), ps, nets)
    ELSE [r |-> Res(ReshardPeer(st), "{\"local_data\": ..., \"local_indices\": ...}"),
          ps |-> ps]

\* the RESHARD handler returned x: its effects on this server and on the shards
Resharded(x, nets) ==
    /\ app_state' = x.r.st
    /\ peers' = x.ps
    /\ last' = Obs("RESHARD", <<>>, x.r, [Pre(app_state, now) EXCEPT !.nets = nets])
    /\ UNCHANGED <<now, session>>

ReshardCmd ==
    \E nets \in [DOMAIN peers -> {"up", "down", "reject"}] :
        Resharded(reshard_command(app_state, peers, nets), nets)

\* a client of the shard server h sets a key there
PeerSetCmd(h, parts, value) ==
    /\ h \in DOMAIN peers
    /\ peers' = [x \in DOMAIN peers |->
                    IF x = h THEN set_command(peers[h], parts, value, FALSE, now, "up").st
                    ELSE peers[x]]
    /\ last' = Obs("SET on " \o h, parts,
                   set_command(peers[h], parts, value, FALSE, now, "up"), Pre(app_state, now))
    /\ UNCHANGED <<app_state, now, session>>

----------------------------------------------------------------------------
(* SpecReshard: the sharding master 'h0' and the shards 'h1', 'h2'; 'u:1'  *)
(* belongs to h0 and 'u:3' to h1                                           *)

ReshardShards == <<"h0", "h1", "h2">>

ReshardConfigs ==
    {[DefaultConfig EXCEPT !.SHARDING = "1", !.SHARDS = ReshardShards, !.SCHEDULER = sch] :
        sch \in {"0", "1"}}

PeerConfig(h) ==
    [DefaultConfig EXCEPT !.SHARDING = "1", !.SHARDING_TYPE = "SLAVE",
                          !.SHARDS = ReshardShards, !.HOST = h]

InitReshard ==
    /\ \E config \in ReshardConfigs : app_state = NewAppState(config)
    /\ now = 0
    /\ last = NoObs
    /\ session = NoSession
    /\ peers = [h \in {"h1", "h2"} |-> NewAppState(PeerConfig(h))]

NextReshard ==
    \/ SetCmd(<<"u", "1", "f">>, StrNode("a"), FALSE)
    \/ PeerSetCmd("h1", <<"u", "3", "f">>, StrNode("a"))
    \/ IndicesCreateCmd("u", "f", "string")
    \/ ScheduleAddCmd
    \/ ReshardCmd

SpecReshard == InitReshard /\ [][NextReshard]_vars

SameIndices(a, b) ==
    /\ DOMAIN a = DOMAIN b
    /\ \A ip \in DOMAIN a : /\ a[ip].type = b[ip].type
                            /\ IndexContent(a[ip].values) = IndexContent(b[ip].values)

\* this step is a RESHARD during which some shard did not answer
PeerDidNotRespond ==
    /\ last'.cmd = "RESHARD"
    /\ \E h \in DOMAIN last'.pre.nets : last'.pre.nets[h] # "up"

\* C10: when RESHARD returns after some peer did not respond, the master and
\* every peer that did respond hold the data and indices they held before it
C10_ReshardRolledBack ==
    [][PeerDidNotRespond
          => /\ app_state'.data_store = app_state.data_store
             /\ SameIndices(app_state'.indices, app_state.indices)
             /\ \A h \in DOMAIN peers :
                    last'.pre.nets[h] = "up"
                        => /\ peers'[h].data_store = peers[h].data_store
                           /\ SameIndices(peers'[h].indices, peers[h].indices)]_vars

----------------------------------------------------------------------------
(* SpecReshardData: the same three servers; the entities 'u:1' and 'u:3'  *)
(* get the fields 'f' and 'value'                                          *)

InitReshardData ==
    /\ app_state = NewAppState([DefaultConfig EXCEPT !.SHARDING = "1",
                                                     !.SHARDS = ReshardShards])
    /\ now = 0
    /\ last = NoObs
    /\ session = NoSession
    /\ peers = [h \in {"h1", "h2"} |-> NewAppState(PeerConfig(h))]

NextReshardData ==
    \/ \E field \in {"f", "value"} : SetCmd(<<"u", "1", field>>, StrNode("a"), FALSE)
    \/ \E field \in {"f", "value"} : PeerSetCmd("h1", <<"u", "3", field>>, StrNode("a"))
    \/ ReshardCmd

SpecReshardData == InitReshardData /\ [][NextReshardData]_vars


\* the leaves of a tree with their paths: what a server holds, whatever the
\* order of the keys in its dicts
Leaves(d) == {<<q, d[q]>> : q \in {x \in DOMAIN d : d[x].k # "d"}}

\* the entities 'top:id' a server holds
Entities(d) == {q \in DOMAIN d : Len(q) = 2}

Held(st, ps) == Leaves(st.data_store) \cup UNION {Leaves(ps[h].data_store) : h \in DOMAIN ps}

\* no entity is held by two servers
HeldOnce(st, ps) ==
    /\ \A h \in DOMAIN ps : Entities(st.data_store) \cap Entities(ps[h].data_store) = {}
    /\ \A h, g \in DOMAIN ps :
           h # g => Entities(ps[h].data_store) \cap Entities(ps[g].data_store) = {}

AllAnswered(obs) ==
    /\ obs.cmd = "RESHARD"
    /\ DOMAIN obs.pre.nets # {}
    /\ \A h \in DOMAIN obs.pre.nets : obs.pre.nets[h] = "up"

----------------------------------------------------------------------------
(* SpecRoute: a sharding master 'h0' of three shards; the entity 'u:1' is  *)
(* the master's, 'u:3' is of 'h1' and 'u:4' of 'h2'.  The commands address *)
(* a field of the master's entity and, of the other two, the entity, one   *)
(* of its fields, and a key inside the field.                              *)

RouteIds == {"3", "4"}
RoutePaths == {<<"u", i>> : i \in RouteIds} \cup {<<"u", i, "f">> : i \in RouteIds \cup {"1"}}
                  \cup {<<"u", i, "f", "g">> : i \in RouteIds}

InitRoute ==
    /\ app_state = NewAppState([DefaultConfig EXCEPT !.SHARDING = "1", !.SHARDS = ReshardShards])
    /\ now = 0
    /\ last = NoObs
    /\ session = NoSession
    /\ peers = NoPeers

NextRoute ==
    \/ \E parts \in RoutePaths : SetCmd(parts, StrNode("a"), FALSE)
    \/ \E parts \in RoutePaths : DelCmd(parts)
    \/ \E parts \in RoutePaths, increment \in BOOLEAN : IncrCmd(parts, increment)
    \/ \E parts \in RoutePaths : RenameCmd(parts, "h")

SpecRoute == InitRoute /\ [][NextRoute]_vars

\* SHARDS[sha256(top:id) mod N]
EntityShard(st, parts) ==
    st.config_store.SHARDS[(Sha256Mod6(<<parts[1], parts[2]>>) % Len(st.config_store.SHARDS)) + 1]

\* C12: on a sharding master, a single-key SET, DEL, INCR, DECR or RENAME on a
\* path of any depth under the entity top:id goes to the shard
\* SHARDS[sha256(top:id) mod N] and to no other: it is handled locally, with
\* nothing sent, when that shard is the master itself, and otherwise it is sent
\* to that shard alone and the master's state stays as it was
C12_EntityRoutedToOneShard ==
    [][(has_sharding_is_sharding_master(app_state) /\ last'.cmd \in SingleKeyCommands
            /\ Len(last'.parts) >= 2)
          => /\ \A i \in 1..Len(last'.fwd) :
                    last'.fwd[i].shard = EntityShard(app_state, last'.parts)
             /\ Len(last'.fwd) <= 1
             /\ EntityShard(app_state, last'.parts) = app_state.config_store.HOST
                    => last'.fwd = <<>> /\ last'.reply # "ERROR: Sharding failed"
             /\ EntityShard(app_state, last'.parts) # app_state.config_store.HOST
                    => /\ app_state' = app_state
                       /\ last'.pre.net = "up" => Len(last'.fwd) = 1]_vars

\* a RENAME of a key inside a field of 'u:4' was sent to 'h2'
C12_DeepRenameSent ==
    /\ last.cmd = "RENAME"
    /\ last.parts = <<"u", "4", "f", "g">>
    /\ Len(last.fwd) = 1
    /\ last.fwd[1].shard = "h2"

----------------------------------------------------------------------------
(* Batches: the '|'-separated commands of one SET or DEL line.  A SET      *)
(* command is [malformed, parts, value, expire]; malformed: it does not    *)
(* match '([^ ]+) (.+)'.  A DEL command is its parts, malformed when one   *)
(* of them is the empty string.                                            *)

\* "ERROR:" in text, for the texts of the model, which hold it at the start or
\* not at all
IsErrorText(text) == Len(text) >= 6 /\ SubSeq(text, 1, 6) = "ERROR:"

RECURSIVE JoinLines(_)
\* '\n'.join(responses)
JoinLines(responses) ==
    IF responses = <<>> THEN ""
    ELSE IF Len(responses) = 1 THEN responses[1]
    ELSE responses[1] \o "\n" \o JoinLines(Tail(responses))

\* the handler's result so far, with r, the outcome of one more command
Appended(acc, r) ==
    [acc EXCEPT !.st = r.st, !.result = Append(acc.result, r.reply),
                !.notify = acc.notify \o r.notify, !.repl = acc.repl \o r.repl,
                !.fwd = acc.fwd \o r.fwd]

\* get_context_from_key: the dict holding the key, {} when the path to it is
\* absent; .get on something that is no dict raises
get_context_from_key(d, parts) ==
    IF \E i \in 1..(Len(parts) - 2) :
           /\ \A j \in 1..i : HasKey(d, Prefix(parts, j))
           /\ d[Prefix(parts, i)].k # "d"
    THEN [exc |-> "AttributeError", at |-> <<>>, present |-> FALSE]
    ELSE [exc |-> "", at |-> Parent(parts), present |-> HasKey(d, Parent(parts))]

\* str.upper() on the texts of the model
Upper(text) ==
    CASE text = "a" -> "A"
      [] text = "b" -> "B"
      [] OTHER -> text

SupportedFunctions ==
    {"BASE64", "HASH", "MD5", "CHECKSUM", "RANDOM", "UPPER", "LOWER", "UUID", "TIMESTAMP",
     "ROUND", "DECIMAL"}

\* an argument <<"%", name>> is the placeholder %name, <<"", text>> is text
replace_placeholders(d, arg, context) ==
    IF arg[1] # "%" THEN [text |-> arg[2], exc |-> ""]
    ELSE IF ~context.present \/ d[context.at].k = "l"
    THEN [text |-> "ERROR: Placeholder " \o arg[2] \o " not found in context", exc |-> ""]
    ELSE IF d[context.at].k = "i" THEN [text |-> "", exc |-> "TypeError"]
    ELSE IF d[context.at].k = "s"
    THEN IF d[context.at].v[1] = arg[2] THEN [text |-> "", exc |-> "TypeError"]
         ELSE [text |-> "ERROR: Placeholder " \o arg[2] \o " not found in context", exc |-> ""]
    ELSE IF ~InSeq(arg[2], d[context.at].v)
    THEN [text |-> "ERROR: Placeholder " \o arg[2] \o " not found in context", exc |-> ""]
    ELSE IF d[Append(context.at, arg[2])].k \in {"s", "i"}
    THEN [text |-> d[Append(context.at, arg[2])].v[1], exc |-> ""]
    ELSE [text |-> "{...}", exc |-> ""]

\* UPPER is the function the model computes
apply_function(func, text) ==
    IF func = "UPPER" THEN Upper(text)
    ELSE "ERROR: Unsupported function " \o func

\* text is what replace_placeholders returned
FunctionApplied(func, text) ==
    IF text.exc # "" THEN [value |-> StrNode(""), exc |-> text.exc]
    ELSE IF IsErrorText(text.text) THEN [value |-> StrNode(text.text), exc |-> ""]
    ELSE [value |-> StrNode(apply_function(func, text.text)), exc |-> ""]

\* a value [k |-> "x", v |-> <<func, "%" or "", text>>] is the one call
\* func(text) or func(%text); any other value has no call in it
evaluate_expression(d, value, context) ==
    IF value.k # "x" THEN [value |-> value, exc |-> ""]
    ELSE FunctionApplied(value.v[1], replace_placeholders(d, <<value.v[2], value.v[3]>>, context))

handle_expression_functions(d, value, context) == evaluate_expression(d, value, context)

\* value is what handle_expression_functions returned
SetEvaluated(value, st, command, t, net) ==
    IF value.exc # "" THEN Raise(st, value.exc)
    ELSE set_command(st, command.parts, value.value, command.expire, t, net)

\* one command of the line, from the context to the reply
SetOne(st, command, t, net) ==
    IF get_context_from_key(st.data_store, command.parts).exc # ""
    THEN Raise(st, get_context_from_key(st.data_store, command.parts).exc)
    ELSE SetEvaluated(handle_expression_functions(
                          st.data_store, command.value,
                          get_context_from_key(st.data_store, command.parts)),
                      st, command, t, net)

RECURSIVE SetCommands(_, _, _, _, _)
\* the loop of set_command over commands[i..]; acc.result is responses
SetCommands(acc, commands, i, t, net) ==
    IF i > Len(commands) THEN [acc EXCEPT !.reply = JoinLines(acc.result)]
    ELSE IF commands[i].malformed
    THEN SetCommands(Appended(acc, Res(acc.st, "ERROR: Invalid SET syntax")),
                     commands, i + 1, t, net)
    ELSE IF commands[i].expire /\ ~is_scheduler_active(acc.st)
    THEN [acc EXCEPT !.reply = set_command(acc.st, commands[i].parts, commands[i].value,
                                           TRUE, t, net).reply,
                     !.result = <<set_command(acc.st, commands[i].parts, commands[i].value,
                                              TRUE, t, net).reply>>]
    ELSE IF SetOne(acc.st, commands[i], t, net).exc # ""
    THEN [Appended(acc, SetOne(acc.st, commands[i], t, net)) EXCEPT
             !.reply = NoReply, !.result = <<>>,
             !.exc = SetOne(acc.st, commands[i], t, net).exc]
    ELSE SetCommands(Appended(acc, SetOne(acc.st, commands[i], t, net)),
                     commands, i + 1, t, net)

\* SET <command>|<command>|...; result holds the lines of the reply
set_command_line(st, commands, t, net) ==
    SetCommands([Res(st, "") EXCEPT !.result = <<>>], commands, 1, t, net)

RECURSIVE DelCommands(_, _, _, _)
\* the loop of del_command over commands[i..]
DelCommands(acc, commands, i, net) ==
    IF i > Len(commands) THEN [acc EXCEPT !.reply = JoinLines(acc.result)]
    ELSE IF InSeq("", commands[i])
    THEN DelCommands(Appended(acc, Res(acc.st, "ERROR: Invalid DEL syntax")),
                     commands, i + 1, net)
    ELSE IF del_command(acc.st, commands[i], net).exc # ""
    THEN [Appended(acc, del_command(acc.st, commands[i], net)) EXCEPT
             !.reply = NoReply, !.result = <<>>,
             !.exc = del_command(acc.st, commands[i], net).exc]
    ELSE DelCommands(Appended(acc, del_command(acc.st, commands[i], net)),
                     commands, i + 1, net)

\* DEL <command>|<command>|...
del_command_line(st, commands, net) ==
    DelCommands([Res(st, "") EXCEPT !.result = <<>>], commands, 1, net)

SetLineCmd(commands) ==
    \E net \in Nets(app_state) :
        Deliver("SET", commands, set_command_line(app_state, commands, now, net),
                PreNet(app_state, now, net))

DelLineCmd(commands) ==
    \E net \in Nets(app_state) :
        Deliver("DEL", commands, del_command_line(app_state, commands, net),
                PreNet(app_state, now, net))

----------------------------------------------------------------------------
(* SpecBatch: SET and DEL lines of up to MaxBatch commands, with the       *)
(* scheduler on or off                                                     *)

MaxBatch == 2

SetElements ==
    {[malformed |-> FALSE, parts |-> <<"u", "1", "f">>, value |-> StrNode("a"), expire |-> FALSE],
     [malformed |-> FALSE, parts |-> <<"u", "2", "f">>, value |-> StrNode("b"), expire |-> TRUE],
     [malformed |-> TRUE, parts |-> <<"u", "1", "f">>, value |-> StrNode(""), expire |-> FALSE]}

DelElements == {<<"u", "1", "f">>, <<"u", "2", "f">>, <<"u", "", "f">>}

Lines(elements) == UNION {[1..n -> elements] : n \in 1..MaxBatch}

InitBatch ==
    /\ \E scheduler \in {"0", "1"} :
           app_state = NewAppState([DefaultConfig EXCEPT !.SCHEDULER = scheduler])
    /\ now = 0
    /\ last = NoObs
    /\ session = NoSession
    /\ peers = NoPeers

NextBatch ==
    \/ \E commands \in Lines(SetElements) : SetLineCmd(commands)
    \/ \E commands \in Lines(DelElements) : DelLineCmd(commands)

SpecBatch == InitBatch /\ [][NextBatch]_vars

\* the line holding the one command
OneCommand(cmd, st, command, t, net) ==
    IF cmd = "SET" THEN set_command_line(st, <<command>>, t, net)
    ELSE del_command_line(st, <<command>>, net)

RECURSIVE EachAlone(_, _, _, _, _, _, _)
\* the commands[i..] given one by one, each as a line of its own: the state
\* they leave and their replies
EachAlone(cmd, st, commands, i, t, net, replies) ==
    IF i > Len(commands) THEN [st |-> st, replies |-> replies]
    ELSE EachAlone(cmd, OneCommand(cmd, st, commands[i], t, net).st, commands, i + 1, t, net,
                   Append(replies, OneCommand(cmd, st, commands[i], t, net).reply))

\* C13: a SET or DEL line of n commands is answered with n lines, line i being
\* the reply command i gets on its own after the commands before it, and it
\* leaves the state the commands leave when given one by one, so that every
\* well-formed command is applied whatever becomes of the others
C13_BatchLinePerCommand ==
    [][last'.cmd \in {"SET", "DEL"}
          => /\ last'.exc = ""
             /\ Len(last'.result) = Len(last'.parts)
             /\ last'.result = EachAlone(last'.cmd, app_state, last'.parts, 1, now,
                                         last'.pre.net, <<>>).replies
             /\ last'.reply = JoinLines(last'.result)
             /\ app_state' = EachAlone(last'.cmd, app_state, last'.parts, 1, now,
                                       last'.pre.net, <<>>).st]_vars

----------------------------------------------------------------------------
(* SpecShardWild: wildcard commands on a server with SHARDING = '1', the   *)
(* master 'h0' of two shards or a shard server                             *)

InitShardWild ==
    /\ \E sharding_type \in {"MASTER", "SLAVE"} :
           app_state = NewAppState([ShardConfig EXCEPT !.SHARDING_TYPE = sharding_type])
    /\ now = 0
    /\ last = NoObs
    /\ session = NoSession
    /\ peers = NoPeers

NextShardWild ==
    \/ \E v \in ShValues : SetCmd(<<"u", "1", "f">>, v, FALSE)
    \/ \E v \in ShValues : SetCmd(<<"u", "*", "f">>, v, FALSE)
    \/ DelCmd(<<"u", "*", "f">>)
    \/ \E new_key \in {"f", "g"} : RenameCmd(<<"u", "*", new_key>>, IF new_key = "f" THEN "g" ELSE "f")
    \/ IndicesCreateCmd("u", "f", "string")

SpecShardWild == InitShardWild /\ [][NextShardWild]_vars

\* the reply starts with 'ERROR:'
IsErrorReply(reply) == Len(reply) >= 6 /\ SubSeq(reply, 1, 6) = "ERROR:"

\* C14: with SHARDING = '1', a SET, DEL or RENAME whose path holds '*' gets an
\* error reply and leaves the tree and the indices as they were
C14_WildcardRejectedWhenSharding ==
    [][(has_sharding(app_state) /\ last'.cmd \in {"SET", "DEL", "RENAME"}
            /\ InSeq("*", last'.parts))
          => /\ IsErrorReply(last'.reply)
             /\ app_state'.data_store = app_state.data_store
             /\ app_state'.indices = app_state.indices]_vars

----------------------------------------------------------------------------
(* SpecExpr: SET lines of one command whose value is a text, a call of a   *)
(* function on a text or on a placeholder, or missing; the scheduler is    *)
(* active so that EXPIRE is accepted                                       *)

ExprNode(func, mark, text) == [k |-> "x", v |-> <<func, mark, text>>]

ExprValues ==
    {StrNode("a"), ExprNode("UPPER", "", "a"), ExprNode("UPPER", "%", "x"),
     ExprNode("FOO", "", "a")}

ExprElements ==
    {[malformed |-> FALSE, parts |-> <<"u", "1", "f">>, value |-> v, expire |-> e] :
        v \in ExprValues, e \in BOOLEAN}
    \cup {[malformed |-> FALSE, parts |-> <<"u", "1", "x">>, value |-> StrNode("a"),
           expire |-> FALSE],
          [malformed |-> TRUE, parts |-> <<"u", "1", "f">>, value |-> StrNode(""),
           expire |-> FALSE]}

InitExpr ==
    /\ app_state = NewAppState([DefaultConfig EXCEPT !.SCHEDULER = "1"])
    /\ now = 0
    /\ last = NoObs
    /\ session = NoSession
    /\ peers = NoPeers

NextExpr ==
    \/ \E command \in ExprElements : SetLineCmd(<<command>>)
    \/ \E field \in {"f", "x"} : DelLineCmd(<<<<"u", "1", field>>>>)
    \/ IndicesCreateCmd("u", "f", "string")

SpecExpr == InitExpr /\ [][NextExpr]_vars

\* the command is malformed, or its value calls a function that does not
\* exist or names a placeholder the context of its key does not hold
FailsToEvaluate(d, command) ==
    \/ command.malformed
    \/ /\ command.value.k = "x"
       /\ \/ command.value.v[1] \notin SupportedFunctions
          \/ /\ command.value.v[2] = "%"
             /\ ~HasKey(d, Append(Parent(command.parts), command.value.v[3]))

\* C15: a SET command that is malformed, or whose value holds a function or a
\* placeholder that fails to evaluate, is answered with a line starting with
\* 'ERROR:' and leaves the tree, the indices and the TTL store as they were
C15_FailedSetChangesNothing ==
    [][(last'.cmd = "SET" /\ Len(last'.parts) = 1
            /\ FailsToEvaluate(app_state.data_store, last'.parts[1]))
          => /\ IsErrorReply(last'.reply)
             /\ app_state'.data_store = app_state.data_store
             /\ app_state'.indices = app_state.indices
             /\ app_state'.expires_store = app_state.expires_store]_vars

----------------------------------------------------------------------------
(* SpecSched: SCHEDULE ADD, DEL and FLUSH with two cron expressions and    *)
(* two task keys, the clock in minutes, and the scheduler's passes         *)

MaxMinutes == 2

Crons == {"* * * * *", "*/2 * * * *"}
TaskKeys == {"u:1:f", "u:2:f"}

InitSched ==
    /\ app_state = NewAppState([DefaultConfig EXCEPT !.SCHEDULER = "1"])
    /\ now = 0
    /\ last = NoObs
    /\ session = NoSession
    /\ peers = NoPeers

\* a minute goes by
NextMinute ==
    /\ now < MaxMinutes
    /\ now' = now + 1
    /\ UNCHANGED <<app_state, last, session, peers>>

NextSched ==
    \/ \E schedule \in Crons, key \in TaskKeys : ScheduleAdd(schedule, "SET " \o key \o " a", key)
    \/ \E key \in TaskKeys : ScheduleDel(key)
    \/ \E detail \in Crons \cup {"ALL"} : ScheduleFlush(detail)
    \/ NextMinute
    \/ Tick

SpecSched == InitSched /\ [][NextSched]_vars

\* C16: no task key is held under more than one cron expression
C16_KeyUnderOneSchedule ==
    \A x, y \in ScheduledTasks(app_state) : x.task.key = y.task.key => x.schedule = y.schedule

\* C17: a pass of the scheduler runs every task whose next run is not after
\* the time of the pass, without ending in an exception, and then holds the
\* time of the pass as the task's last run and a later time as its next run;
\* a task whose next run is later is left as it was
C17_DueTasksRunOnTick ==
    [][last'.cmd = "TICK"
          => \A x \in ScheduledTasks(app_state) :
                 /\ x.task.next <= now
                        => /\ last'.exc = ""
                           /\ \E y \in ScheduledTasks(app_state') :
                                  /\ y.schedule = x.schedule /\ y.task.key = x.task.key
                                  /\ y.task.last = now /\ y.task.next > now
                 /\ x.task.next > now => x \in ScheduledTasks(app_state')]_vars

----------------------------------------------------------------------------
(* SpecSave: SET and INDICES CREATE with the scheduler on or off, the      *)
(* passes of the scheduler, and a disk whose writes may fail               *)

DiskOutcomes == {"ok", "open", "dump", "close"}

InitSave ==
    /\ \E scheduler \in {"0", "1"} :
           app_state = NewAppState([DefaultConfig EXCEPT !.SCHEDULER = scheduler])
    /\ now = 0
    /\ last = NoObs
    /\ session = NoSession
    /\ peers = NoPeers

\* the disk changes what the next writes will do
DiskTurns(data, indices) ==
    /\ app_state' = [app_state EXCEPT !.disk = [data |-> data, indices |-> indices]]
    /\ UNCHANGED <<now, last, session, peers>>

NextSave ==
    \/ \E v \in ShValues : SetCmd(<<"u", "1", "f">>, v, FALSE)
    \/ IndicesCreateCmd("u", "f", "string")
    \/ \E data, indices \in DiskOutcomes : DiskTurns(data, indices)
    \/ Tick

SpecSave == InitSave /\ [][NextSave]_vars

\* C18: the flag of the data, and that of the indices, goes from set to clear
\* only in a step after which the file holds what is in memory; and a pass of
\* the scheduler whose write of a changed store fails leaves the store as it
\* was and the flag set
C18_FlagClearedBySuccessfulWrite ==
    [][/\ (app_state.data_has_changed /\ ~app_state'.data_has_changed)
              => app_state'.data_file = app_state'.data_store
       /\ (app_state.indices_has_changed /\ ~app_state'.indices_has_changed)
              => app_state'.indices_file = app_state'.indices
       /\ (last'.cmd = "TICK" /\ app_state.data_has_changed /\ app_state.disk.data # "ok")
              => /\ app_state'.data_has_changed
                 /\ app_state'.data_store = app_state.data_store
       /\ (last'.cmd = "TICK" /\ app_state.indices_has_changed
               /\ app_state.disk.indices # "ok")
              => /\ app_state'.indices_has_changed
                 /\ app_state'.indices = app_state.indices]_vars

----------------------------------------------------------------------------
(* SpecPubSub: two sessions that connect, subscribe, unsubscribe and leave *)
(* while u:1:f and the entity u:1 are set and fields of u are indexed      *)

Sids == {"s1", "s2"}

\* of the keys 's1' may subscribe to, four match the path u:1:f
SubKeysOf(sid) ==
    IF sid = "s1"
    THEN {<<"u", "1", "f">>, <<"u", "*">>, <<"u", "1", "f", "*">>, <<"u", "1", "*", "*">>,
          <<"u", "2", "f">>}
    ELSE {<<"u", "1", "*">>, <<"u", "*", "f">>}

InitPubSub ==
    /\ app_state = NewAppState(DefaultConfig)
    /\ now = 0
    /\ last = NoObs
    /\ session = NoSession
    /\ peers = NoPeers

\* a client connects and is given a session id that was never in use
Connect(sid) ==
    /\ sid \notin DOMAIN app_state.sessions
    /\ \A k \in DOMAIN app_state.sub_pub : sid \notin app_state.sub_pub[k]
    /\ Deliver("connect", <<sid>>, Res(Registered(app_state, sid), NoReply), Pre(app_state, now))

\* the end of a session
Disconnect(sid) ==
    /\ sid \in DOMAIN app_state.sessions
    /\ Deliver("disconnect", <<sid>>, Res(clean_up(app_state, sid), NoReply),
               Pre(app_state, now))

\* r is what subscribe or unsubscribe returned
SubReply(r) == IF r.exc # "" THEN Raise(r.st, r.exc) ELSE Res(r.st, "OK")

\* SUB key, also when it is handled after the session was cleaned up
SubCmd(sid, key) ==
    Deliver("SUB", key, SubReply(subscribe(app_state, <<key>>, sid)), Pre(app_state, now))

\* UNSUB key
UnsubCmd(sid, key) ==
    /\ sid \in DOMAIN app_state.sessions
    /\ Deliver("UNSUB", key, SubReply(unsubscribe(app_state, <<key>>, sid)),
               Pre(app_state, now))

ObjectNode(members) == [k |-> "o", v |-> members]

NextPubSub ==
    \/ \E sid \in Sids : Connect(sid)
    \/ \E sid \in Sids : Disconnect(sid)
    \/ \E sid \in Sids : \E key \in SubKeysOf(sid) : SubCmd(sid, key)
    \/ \E sid \in Sids : \E key \in SubKeysOf(sid) : UnsubCmd(sid, key)
    \/ SetCmd(<<"u", "1", "f">>, StrNode("a"), FALSE)
    \/ SetCmd(<<"u", "1">>, ObjectNode(<<<<"f", StrNode("b")>>, <<"g", StrNode("b")>>>>), FALSE)
    \/ IndicesCreateCmd("u", "g", "string")

SpecPubSub == InitPubSub /\ [][NextPubSub]_vars

\* C19: every notification of a SET that reaches a subscriber is sent with
\* the indices as the SET leaves them
C19_IndexedBeforeNotified ==
    [][last'.cmd = "SET"
          => \A i \in 1..Len(last'.notify) :
                 last'.notify[i].sids # {} => last'.notify[i].indices = app_state'.indices]_vars

\* the subscription key matches the path: it is the path, q:* for a
\* non-empty prefix q of the path, or q:*:* for a non-empty proper prefix q
MatchesPath(key, path) ==
    \/ key = path
    \/ \E i \in 1..Len(path) : key = Append(Prefix(path, i), "*")
    \/ \E i \in 1..(Len(path) - 1) : key = Prefix(path, i) \o <<"*", "*">>

\* C20: a notification for a path is sent once to every registered session
\* that holds at least one subscription matching the path, and to no other
\* session
C20_NotifiedOncePerSession ==
    [][\A i \in 1..Len(last'.notify) :
           \A sid \in Sids :
               IF /\ sid \in DOMAIN app_state.sessions
                  /\ \E key \in DOMAIN app_state.sub_pub :
                         sid \in app_state.sub_pub[key] /\ MatchesPath(key, last'.notify[i].key)
               THEN sid \in DOMAIN last'.notify[i].sent /\ last'.notify[i].sent[sid] = 1
               ELSE sid \in DOMAIN last'.notify[i].sent => last'.notify[i].sent[sid] = 0]_vars

\* 's1' holds three subscriptions that match u:1:f and was sent its
\* notification, 's2' holds none that matches and was sent nothing
C20_SeveralMatchingSubscriptions ==
    /\ last.cmd = "SET"
    /\ last.parts = <<"u", "1", "f">>
    /\ Len(last.notify) = 1
    /\ {"s1", "s2"} \subseteq DOMAIN app_state.sessions
    /\ Cardinality({key \in DOMAIN app_state.sub_pub :
                       "s1" \in app_state.sub_pub[key] /\ MatchesPath(key, <<"u", "1", "f">>)}) >= 3
    /\ <<"u", "*", "f">> \in DOMAIN app_state.sub_pub
    /\ last.notify[1].sent["s1"] = 1
    /\ last.notify[1].sent["s2"] = 0

----------------------------------------------------------------------------
(* SpecSetCache: SET of specific paths on a node that executes every       *)
(* command locally, with the scheduler and query caching on or off, and    *)
(* queries that fill the cache between the SETs.                           *)

\* a SET whose value is kept with the observation
SetValueCmd(parts, value) ==
    Deliver("SET", parts, set_command(app_state, parts, value, FALSE, now, "up"),
            Pre(app_state, now) @@ [value |-> value])

ScPaths == {<<"u", "1", "f">>, <<"u", "2", "f">>}
ScValues == {StrNode("a"), StrNode("b")}
ScRoots == {<<"u">>, <<"u", "1">>}

InitSetCache ==
    /\ app_state \in {NewAppState([DefaultConfig EXCEPT !.SCHEDULER = s, !.QUERY_CACHING = c]) :
                         s \in {"0", "1"}, c \in {"0", "1"}}
    /\ now = 0
    /\ last = NoObs
    /\ peers = NoPeers
    /\ session = NoSession

NextSetCache ==
    \/ \E p \in ScPaths, v \in ScValues : SetValueCmd(p, v)
    \/ SetValueCmd(<<"u", "1">>, IntNode("1"))
    \/ \E root \in ScRoots : QueryCmd(root)
    \/ Advance

SpecSetCache == InitSetCache /\ [][NextSetCache]_vars

\* C21: whatever the query cache holds, a SET of a specific path that is
\* executed locally replies OK, leaves the value at the path, leaves no cached
\* result under the top-level key, notifies the subscribers of the full path,
\* and marks the data as changed, the snapshot being written at once when the
\* scheduler is inactive
C21_LocalSetStoresAndReplies ==
    last.cmd = "SET" =>
        /\ last.reply = "OK"
        /\ HasKey(app_state.data_store, last.parts)
        /\ app_state.data_store[last.parts] = last.pre.value
        /\ \A c \in DOMAIN app_state.data_store_cache : c[1] # last.parts[1]
        /\ Len(last.notify) = 1
        /\ last.notify[1].key = last.parts
        /\ IF is_scheduler_active(app_state)
           THEN app_state.data_has_changed
           ELSE app_state.data_file = app_state.data_store /\ ~app_state.data_has_changed

----------------------------------------------------------------------------
(* SpecCacheMut: query caching and the scheduler on; a counter 'u:1:n' is  *)
(* set (with or without EXPIRE), queried, and then changed by INCR, DECR,  *)
(* RENAME, FLUSHALL or the TTL sweep of the scheduler.                     *)

CmCounter == <<"u", "1", "n">>
CmRoot == <<"u">>

\* the counter holds v; INCR and DECR keep it within 1 and 2
CounterIs(v) ==
    HasKey(app_state.data_store, CmCounter) /\ app_state.data_store[CmCounter] = IntNode(v)

InitCacheMut ==
    /\ app_state = NewAppState([CachedConfig EXCEPT !.SCHEDULER = "1"])
    /\ now = 0
    /\ last = NoObs
    /\ peers = NoPeers
    /\ session = NoSession

NextCacheMut ==
    \/ \E e \in BOOLEAN : SetCmd(CmCounter, IntNode("1"), e)
    \/ QueryCmd(CmRoot)
    \/ CounterIs("1") /\ IncrCmd(CmCounter, TRUE)
    \/ CounterIs("2") /\ IncrCmd(CmCounter, FALSE)
    \/ RenameCmd(CmCounter, "h")
    \/ FlushAllCmd
    \/ Advance
    \/ Tick

SpecCacheMut == InitCacheMut /\ [][NextCacheMut]_vars

\* the paths under which the last command changed the data
ChangedPaths ==
    CASE last.cmd \in {"INCR", "DECR"} /\ last.reply = "OK" -> {last.parts}
      [] last.cmd = "RENAME" /\ last.reply = "RENAME successful: 1 key renamed." -> {last.parts}
      [] last.cmd = "FLUSHALL" /\ last.reply # NoReply -> {<<c[1]>> : c \in last.pre.cached}
      [] last.cmd = "TICK" /\ last.exc = "" -> last.pre.present
      [] OTHER -> {}

\* the query `root`, run again now, is answered with the result that is cached
AnsweredFromCache(root) ==
    /\ root \in DOMAIN app_state.data_store_cache
    /\ query_command(app_state, root, now).result = {app_state.data_store_cache[root].result}

\* C22: after INCR, DECR, RENAME, FLUSHALL or a removal by the TTL sweep has
\* changed the data under a top-level key, a query on that key whose result was
\* cached before the change is not answered with the cached result again
C22_MutationInvalidatesCache ==
    \A root \in last.pre.cached :
        (\E p \in ChangedPaths : IsPrefix(root, p) \/ IsPrefix(p, root))
            => ~AnsweredFromCache(root)

----------------------------------------------------------------------------
(* SpecIndexMut: a `set` index on the field 'n' of the collection 'u',     *)
(* with the scheduler on; the field is written by SET (with or without     *)
(* EXPIRE), by wildcard SET and DEL, by INCR and DECR, and removed by the  *)
(* TTL sweep.                                                              *)

ImField(id) == <<"u", id, "n">>

\* the field of entity id holds v; INCR and DECR keep it within 1 and 2
FieldIs(id, v) ==
    HasKey(app_state.data_store, ImField(id)) /\ app_state.data_store[ImField(id)] = IntNode(v)

InitIndexMut ==
    /\ app_state = NewAppState(TtlConfig)
    /\ now = 0
    /\ last = Unobserved
    /\ peers = NoPeers
    /\ session = NoSession

NextIndexMut ==
    \/ IndicesCreateCmd("u", "n", "set")
    \/ \E e \in BOOLEAN : SetCmd(ImField("1"), IntNode("1"), e)
    \/ SetCmd(<<"u", "*", "n">>, IntNode("2"), FALSE)
    \/ DelCmd(<<"u", "*", "n">>)
    \/ FieldIs("1", "1") /\ IncrCmd(ImField("1"), TRUE)
    \/ FieldIs("1", "2") /\ IncrCmd(ImField("1"), FALSE)
    \/ Advance
    \/ Tick

SpecIndexMut == InitIndexMut /\ [][NextIndexMut]_vars

\* the entity keys of the collection whose field currently holds the value x
HoldingEntities(d, main_key, field, x) ==
    IF ~IsDictAt(d, <<main_key>>) THEN {}
    ELSE {<<main_key, id>> : id \in {e \in SeqSet(d[<<main_key>>].v) :
                                        /\ HasKey(d, <<main_key, e, field>>)
                                        /\ x \in Items(d[<<main_key, e, field>>])}}

\* the values some entity of the collection holds in the field
HeldValues(d, main_key, field) ==
    IF ~IsDictAt(d, <<main_key>>) THEN {}
    ELSE UNION {Items(d[<<main_key, e, field>>]) :
                   e \in {e \in SeqSet(d[<<main_key>>].v) : HasKey(d, <<main_key, e, field>>)}}

\* the entity keys the index files under the value x
Filed(info, x) == IF x \in DOMAIN info.values THEN info.values[x].ids ELSE {}

\* C23: after INCR or DECR on an indexed field, after a wildcard SET or DEL and
\* after the TTL sweep removed an indexed path, every `set` index files under
\* each value exactly the entities whose field currently holds that value
C23_IndexMatchesDocuments ==
    \A ip \in DOMAIN app_state.indices :
        app_state.indices[ip].type = "set" =>
            \A x \in DOMAIN app_state.indices[ip].values
                     \cup HeldValues(app_state.data_store, ip[1], ip[2]) :
                Filed(app_state.indices[ip], x)
                    = HoldingEntities(app_state.data_store, ip[1], ip[2], x)

----------------------------------------------------------------------------
(* Disconnect, under SpecSession *)

\* C24: the session's registry entry and subscriptions are removed only after
\* the pending queue is drained and every command of the session that was
\* queued or in flight has completed: no handler of the session is left to run
\* once the session is removed
C24_CleanUpAfterHandlers ==
    Sid \notin DOMAIN app_state.sessions
        => /\ session.message_queue = <<>>
           /\ \A i \in 1..Len(session.tasks) : session.tasks[i].pc = "done"

----------------------------------------------------------------------------
(* The thread pool, under SpecSession *)

\* the document tree, the subscription maps, the session registry and the
\* scheduler registry
SharedStores(st) ==
    <<st.data_store, st.sub_pub, st.monitor_subscribers, st.node_subscribers,
      st.node_lite_subscribers, st.sessions, st.scheduled_tasks>>

\* C25: a handler that runs in the thread pool does not touch the shared stores:
\* the step in which a worker thread runs the function of a task leaves the
\* document tree, the subscription maps, the session registry and the
\* scheduler registry as they were
C25_ThreadPoolLeavesStores ==
    [][(\E i \in 1..Len(session.tasks) :
            session.tasks[i].pc = "thread" /\ session'.tasks[i].pc = "done")
        => SharedStores(app_state') = SharedStores(app_state)]_vars

----------------------------------------------------------------------------
(* Shutdown.  signal_stop runs as a task of the event loop: it runs to its *)
(* first suspension in one step, and is suspended at every close of a      *)
(* connection.                                                             *)

\* SchedulerTasks.save_scheduler
save_scheduler(st) == [st EXCEPT !.scheduler_file = st.scheduled_tasks]

\* signal_stop has done the step
Did(st, step) == [st EXCEPT !.signal_stop.steps = Append(@, step)]

\* data_has_changed = True; indices_has_changed = True
FlagsSet(st) ==
    Did([st EXCEPT !.data_has_changed = TRUE, !.indices_has_changed = TRUE], "flags")

\* save_data(); save_indices(); save_scheduler()
SnapshotsWritten(st) == Did(save_scheduler(save_indices(save_data(st))), "snapshots")

\* backup_response = await backup_manager.backup_data(): backup_data is a plain
\* function that returns a str, and awaiting the str raises TypeError
BackedUp(st) ==
    IF st.config_store.BACKUP_ON_SHUTDOWN = "1"
    THEN [backup_data(st) EXCEPT !.signal_stop.pc = "raised"]
    ELSE [st EXCEPT !.signal_stop.pc = "closing",
                    !.signal_stop.session_keys = DOMAIN st.sessions,
                    !.signal_stop.todo = DOMAIN st.sessions]

\* signal_stop from its start to the loop over session_keys
signal_stop(st) == BackedUp(SnapshotsWritten(FlagsSet(st)))

\* one turn of the loop: session['websocket'].close(code=1001) if the session
\* is still registered and its connection open
session_closed(st, sid) ==
    [(IF sid \in DOMAIN st.sessions /\ st.sessions[sid].websocket = 0
      THEN Did([st EXCEPT !.sessions[sid].websocket = 1001], "close")
      ELSE st)
     EXCEPT !.signal_stop.todo = @ \ {sid}]

\* SchedulerManager.stop_scheduler
stop_scheduler(st) ==
    IF st.scheduler_alive THEN [st EXCEPT !.scheduler_alive = FALSE] ELSE st

\* after the loop: stop_scheduler() if the scheduler is active; stop_event.set()
shutdown_ended(st) ==
    [Did(IF is_scheduler_active(st) THEN Did(stop_scheduler(st), "stop_scheduler") ELSE st,
         "stop_event")
     EXCEPT !.stop_event = TRUE, !.signal_stop.pc = "done"]

\* the task st' of the loop has run
LoopStep(st) ==
    /\ app_state' = st
    /\ UNCHANGED <<now, last, session, peers>>

\* SIGINT or SIGTERM: signal_handler creates the task signal_stop()
SignalStop ==
    /\ app_state.signal_stop.pc = "idle"
    /\ LoopStep(signal_stop(app_state))

\* SERVERSTOP: server_stop awaits signal_stop()
ServerStopCmd ==
    /\ app_state.signal_stop.pc = "idle"
    /\ \E sid \in DOMAIN app_state.sessions : app_state.sessions[sid].websocket = 0
    /\ LoopStep(signal_stop(app_state))

CloseSession(sid) ==
    /\ app_state.signal_stop.pc = "closing"
    /\ sid \in app_state.signal_stop.todo
    /\ LoopStep(session_closed(app_state, sid))

ShutdownEnds ==
    /\ app_state.signal_stop.pc = "closing"
    /\ app_state.signal_stop.todo = {}
    /\ LoopStep(shutdown_ended(app_state))

----------------------------------------------------------------------------
(* SpecShutdown: sessions come and go and write while the server is told   *)
(* to stop, with the scheduler and the backup on shutdown on or off.       *)

InitShutdown ==
    /\ app_state \in {NewAppState([DefaultConfig EXCEPT !.SCHEDULER = s,
                                                        !.BACKUP_ON_SHUTDOWN = b]) :
                         s \in {"0", "1"}, b \in {"0", "1"}}
    /\ now = 0
    /\ last = Unobserved
    /\ peers = NoPeers
    /\ session = NoSession

\* the server runs until the stop event is set; a new session has a new sid
NextShutdown ==
    \/ /\ ~app_state.stop_event
       /\ \/ \E sid \in Sids : sid \notin app_state.signal_stop.session_keys /\ Connect(sid)
          \/ \E sid \in Sids : Disconnect(sid)
          \/ \E v \in {StrNode("a"), StrNode("b")} : SetCmd(<<"u", "1", "f">>, v, FALSE)
    \/ SignalStop
    \/ ServerStopCmd
    \/ \E sid \in Sids : CloseSession(sid)
    \/ ShutdownEnds

\* a task of the event loop that can run does run
SpecShutdown ==
    /\ InitShutdown
    /\ [][NextShutdown]_vars
    /\ WF_vars(\E sid \in Sids : CloseSession(sid))
    /\ WF_vars(ShutdownEnds)

\* the place of a step in an orderly shutdown
StepRank(step) ==
    CASE step = "flags" -> 1
      [] step = "snapshots" -> 2
      [] step = "close" -> 3
      [] step = "stop_scheduler" -> 4
      [] OTHER -> 5

\* the steps done so far were done in the order of an orderly shutdown
StepsInOrder(steps) ==
    \A i, j \in 1..Len(steps) : i < j => StepRank(steps[i]) <= StepRank(steps[j])

\* when the stop event is set, the flags were set, the snapshots written, every
\* session that was registered is closed with 1001 and the scheduler is stopped
ShutdownComplete(st) ==
    st.stop_event =>
        /\ {"flags", "snapshots"} \subseteq SeqSet(st.signal_stop.steps)
        /\ \A sid \in st.signal_stop.session_keys \cap DOMAIN st.sessions :
               st.sessions[sid].websocket = 1001
        /\ ~(is_scheduler_active(st) /\ st.scheduler_alive)

\* C26: a shutdown sets the dirty flags, writes the snapshots, closes every
\* open channel with code 1001, stops the scheduler and sets the stop event, in
\* this order, and once it has started it reaches the stop event
C26_OrderlyShutdown ==
    /\ [](StepsInOrder(app_state.signal_stop.steps) /\ ShutdownComplete(app_state))
    /\ (app_state.signal_stop.pc # "idle") ~> app_state.stop_event

----------------------------------------------------------------------------
(* CONFIG DEL *)

protected_keys ==
    {"HOST", "PORT", "USERNAME", "PASSWORD", "BACKUP_ON_SHUTDOWN", "SCHEDULER", "REPLICATION",
     "REPLICATION_TYPE", "REPLICATION_AUTHORIZED_SLAVES", "SHARDING_TYPE", "SHARDING",
     "SHARDING_BATCH_SIZE", "SHARDS"}

\* save_config(): the configuration file is rewritten from the store
save_config(st) == [st EXCEPT !.config_file = st.config_store]

handle_config_del_command(st, key) ==
    IF key \in protected_keys
    THEN Res(st, "ERROR: Cannot delete essential configuration key '" \o key \o "'")
    ELSE IF key \in DOMAIN st.config_store
    THEN Res(save_config([st EXCEPT !.config_store = DropKeys(@, {key})]),
             "Configuration key '" \o key \o "' has been deleted")
    ELSE Res(st, "Configuration key '" \o key \o "' does not exist")

ConfigDelCmd(key) ==
    Deliver("CONFIG DEL", <<key>>, handle_config_del_command(app_state, key),
            Pre(app_state, now))

----------------------------------------------------------------------------
(* SpecConfig: CONFIG DEL of every key of the default configuration and of *)
(* a key that is not configured                                            *)

\* the keys of get_default_config() the model has not needed so far
FullConfig ==
    DefaultConfig @@ [PORT |-> "6446", AUTO_UPDATE |-> "1", REPLICATION_MASTER |-> "",
                      REPLICATION_AUTHORIZED_SLAVES |-> <<>>, SHARDING_BATCH_SIZE |-> "500",
                      BLOCKCHAIN |-> "0"]

ConfigKeys == DOMAIN FullConfig \cup {"NO_SUCH_KEY"}

InitConfig ==
    /\ app_state = NewAppState(FullConfig)
    /\ now = 0
    /\ last = NoObs
    /\ peers = NoPeers
    /\ session = NoSession

NextConfig == \E key \in ConfigKeys : ConfigDelCmd(key)

SpecConfig == InitConfig /\ [][NextConfig]_vars

BeginsWith(key, prefix) ==
    Len(key) >= Len(prefix) /\ SubSeq(key, 1, Len(prefix)) = prefix

\* the keys the configuration protects from CONFIG DEL
IsProtectedKey(key) ==
    \/ key \in {"HOST", "PORT", "USERNAME", "PASSWORD", "BACKUP_ON_SHUTDOWN", "SCHEDULER"}
    \/ BeginsWith(key, "REPLICATION")
    \/ BeginsWith(key, "SHARDING")

\* C27: CONFIG DEL of HOST, PORT, USERNAME, PASSWORD, BACKUP_ON_SHUTDOWN,
\* SCHEDULER, or of a key beginning with REPLICATION or with SHARDING is
\* answered with an error and leaves the configuration store unchanged
C27_ProtectedKeysRefuseDel ==
    [][(last'.cmd = "CONFIG DEL" /\ IsProtectedKey(last'.parts[1]))
        => /\ IsErrorReply(last'.reply)
           /\ app_state'.config_store = app_state.config_store]_vars

----------------------------------------------------------------------------
(* SpecLookup: the life of one cache entry.  The query on the collection   *)
(* 'u' is cached; SET invalidates it, INCR and DECR change the data under  *)
(* it and leave it in the cache, and the clock runs past its expiration.   *)
(* last_accessed, which get_cache writes on a hit and nothing reads, is    *)
(* left out of the entries.                                                *)

LookupCmd(root) ==
    Deliver("QUERY", root, query_command(app_state, root, now),
            Pre(app_state, now) @@ [cache |-> app_state.data_store_cache, at |-> now])

InitLookup ==
    /\ \E c \in {"0", "1"} :
          app_state = NewAppState([DefaultConfig EXCEPT !.QUERY_CACHING = c])
    /\ now = 0
    /\ last = NoObs
    /\ peers = NoPeers
    /\ session = NoSession

NextLookup ==
    \/ SetCmd(CmCounter, IntNode("1"), FALSE)
    \/ CounterIs("1") /\ IncrCmd(CmCounter, TRUE)
    \/ CounterIs("2") /\ IncrCmd(CmCounter, FALSE)
    \/ LookupCmd(CmRoot)
    \/ Advance

SpecLookup == InitLookup /\ [][NextLookup]_vars

\* the cache holds an entry for the command, and its expiration is still ahead
Unexpired(st, command, t) ==
    /\ has_caching(st)
    /\ command \in DOMAIN st.data_store_cache
    /\ st.data_store_cache[command].expiration > t

\* what the query answers when it is computed from the documents
Computed(st, root) ==
    IF ~HasKey(st.data_store, root) \/ NoResults(st.data_store, root) THEN {}
    ELSE {Subtree(st.data_store, root)}

\* C28: a query is answered from the cache only while the entry's expiration is
\* ahead, and a hit leaves the entry as it was; on a miss or an expired entry the
\* answer is computed from the documents; an entry is only ever written with the
\* expiration `time of insertion + QUERY_CACHING_TTL`
C28_LookupHonoursExpiration ==
    [][/\ \A c \in DOMAIN app_state'.data_store_cache :
             \/ /\ c \in DOMAIN app_state.data_store_cache
                /\ app_state'.data_store_cache[c] = app_state.data_store_cache[c]
             \/ /\ last'.cmd = "QUERY"
                /\ ~Unexpired(app_state, c, now)
                /\ app_state'.data_store_cache[c].expiration
                       = now + app_state.config_store.QUERY_CACHING_TTL
       /\ (last'.cmd = "QUERY" /\ last' # last) =>
             IF Unexpired(app_state, last'.parts, now)
             THEN /\ last'.result = {app_state.data_store_cache[last'.parts].result}
                  /\ app_state' = app_state
             ELSE /\ last'.result = Computed(app_state, last'.parts)
                  /\ last'.parts \in DOMAIN app_state'.data_store_cache
                         => Unexpired(app_state', last'.parts, now)
      ]_vars

\* a query found an expired entry whose result the documents no longer give
C28_ExpiredEntryPassedOver ==
    /\ last.cmd = "QUERY"
    /\ last.parts \in DOMAIN last.pre.cache
    /\ last.pre.cache[last.parts].expiration <= last.pre.at
    /\ last.result # {last.pre.cache[last.parts].result}
    /\ last.result # {}

----------------------------------------------------------------------------
(* QUERY <root> with ORDERBY and LIMIT on a sharding master.  A result is  *)
(* the list of entries; query caching is off in SpecModifiers, so that     *)
(* get_cache returns None and add_to_cache stores nothing.                 *)

\* QueryUtil.custom_sort_key(x, order_by) as a pair: a missing field gives
\* (0, ''), an integer n gives (1, n); the entries of SpecModifiers hold
\* integers only
custom_sort_key(x, order_by) ==
    IF <<order_by>> \in DOMAIN x.doc /\ x.doc[<<order_by>>].k = "i"
    THEN <<1, IntOf(x.doc[<<order_by>>].v[1])>>
    ELSE <<0, 0>>

\* tuple comparison of two sort keys
KeyLess(a, b) == a[1] < b[1] \/ (a[1] = b[1] /\ a[2] < b[2])

\* list.sort(key=..., reverse=...): stable in both directions
RECURSIVE list_sort(_, _, _)
list_sort(seq, order_by, reverse) ==
    IF seq = <<>> THEN <<>>
    ELSE LET init == list_sort(SubSeq(seq, 1, Len(seq) - 1), order_by, reverse)
             x == seq[Len(seq)]
             Goes(e) == IF reverse
                        THEN KeyLess(custom_sort_key(e, order_by), custom_sort_key(x, order_by))
                        ELSE KeyLess(custom_sort_key(x, order_by), custom_sort_key(e, order_by))
             after == {i \in 1..Len(init) : Goes(init[i])}
             at == IF after = {} THEN Len(init) + 1
                   ELSE CHOOSE i \in after : \A j \in after : i <= j
         IN SubSeq(init, 1, at - 1) \o <<x>> \o SubSeq(init, at, Len(init))

\* seq[start:start + count]
Slice(seq, start, count) ==
    IF start >= Len(seq) \/ count <= 0 THEN <<>>
    ELSE SubSeq(seq, start + 1, IF start + count > Len(seq) THEN Len(seq) ELSE start + count)

\* modifiers is what parse_modifiers returned, without GROUPBY: order_by is ""
\* for None and limit_count is the empty set for None
apply_query_modifiers(combined_results, modifiers) ==
    LET ordered == IF modifiers.order_by # ""
                   THEN list_sort(combined_results, modifiers.order_by, ~modifiers.order_asc)
                   ELSE combined_results
    IN IF modifiers.limit_count = {} THEN ordered
       ELSE Slice(ordered, modifiers.limit_start, CHOOSE n \in modifiers.limit_count : TRUE)

\* parse_modifiers of conditions without GROUPBY, ORDERBY and LIMIT
NoModifiers == [order_by |-> "", order_asc |-> TRUE, limit_start |-> 0, limit_count |-> {}]

\* format_as_list(process_nested_data(data_store[main_key])): one entry per
\* entity, in the order of the dict
format_as_list(d, root) ==
    IF ~IsDictAt(d, root) THEN <<>>
    ELSE [i \in 1..Len(d[root].v) |->
             [key |-> d[root].v[i], doc |-> Subtree(d, Append(root, d[root].v[i]))]]

\* process_local_query(root, '', modifiers), caching off
process_local_query_modifiers(st, root, modifiers) ==
    apply_query_modifiers(format_as_list(st.data_store, root), modifiers)

\* query_command on a server that is not a sharding master: the entries it sends
peer_query(st, root, modifiers) ==
    IF Descend(st.data_store, root) # "reached" THEN <<>>
    ELSE process_local_query_modifiers(st, root, modifiers)

\* broadcast_query: the peers are sent 'QUERY root' without the modifiers; a
\* peer that cannot be reached or refuses the credentials adds nothing
broadcast_query(ps, root, net) ==
    LET hosts == DOMAIN ps
        RECURSIVE gather(_)
        gather(hs) ==
            IF hs = {} THEN <<>>
            ELSE LET h == CHOOSE x \in hs : TRUE
                 IN (IF net = "up" THEN peer_query(ps[h], root, NoModifiers) ELSE <<>>)
                    \o gather(hs \ {h})
    IN gather(hosts)

\* query_command on the sharding master (lines 783-802)
query_command_modifiers(st, ps, root, modifiers, net) ==
    IF Descend(st.data_store, root) # "reached" THEN [Res(st, "[]") EXCEPT !.result = <<>>]
    ELSE LET remote_results == broadcast_query(ps, root, net)
             local_results == process_local_query_modifiers(st, root, modifiers)
             combined_results == local_results \o remote_results
         IN [Res(st, "results") EXCEPT
                !.result = apply_query_modifiers(combined_results, modifiers)]

QueryModifiersCmd(root, modifiers) ==
    \E net \in Nets(app_state) :
        Deliver("QUERY", root, query_command_modifiers(app_state, peers, root, modifiers, net),
                PreNet(app_state, now, net) @@ [modifiers |-> modifiers])

----------------------------------------------------------------------------
(* SpecModifiers: the sharding master 'h0' holds the entities 'u:1' and     *)
(* 'u:3', its peer 'h1' the entity 'u:2'; each has the integer field 'n'.   *)

MoRoot == <<"u">>
MoLocalIds == {"1", "3"}
MoValues == {IntNode("1"), IntNode("2")}
MoModifiers ==
    {m \in [order_by : {"", "n"}, order_asc : BOOLEAN, limit_start : {0, 1},
            limit_count : {{}, {1}}] :
        /\ m.order_by # "" \/ m.limit_count # {}
        /\ m.order_by = "" => m.order_asc
        /\ m.limit_count = {} => m.limit_start = 0}

InitModifiers ==
    /\ app_state = NewAppState(ShardConfig)
    /\ now = 0
    /\ last = NoObs
    /\ session = NoSession
    /\ peers = [h \in {"h1"} |->
                   NewAppState([ShardConfig EXCEPT !.SHARDING_TYPE = "SLAVE", !.HOST = h])]

NextModifiers ==
    \/ \E i \in MoLocalIds, v \in MoValues : SetCmd(<<"u", i, "n">>, v, FALSE)
    \/ \E v \in MoValues : PeerSetCmd("h1", <<"u", "2", "n">>, v)
    \/ \E m \in MoModifiers : QueryModifiersCmd(MoRoot, m)

SpecModifiers == InitModifiers /\ [][NextModifiers]_vars

\* the results of the peers that answered the last query
RespondingPeers ==
    IF last.pre.net = "up" THEN peer_query(peers["h1"], last.parts, NoModifiers) ELSE <<>>

\* C29: on a sharding master, the reply to a QUERY with ORDERBY and/or LIMIT is
\* the modifiers applied once to the unmodified local results followed by the
\* results of every peer that responded
C29_ModifiersAppliedOnce ==
    (last.cmd = "QUERY" /\ last.exc = "") =>
        last.result =
            apply_query_modifiers(
                format_as_list(app_state.data_store, last.parts) \o RespondingPeers,
                last.pre.modifiers)

----------------------------------------------------------------------------
(* SpecBuckets: a `set` index on the field 'f' of the collection 'u',      *)
(* created before or after the data; the field of two entities is set,     *)
(* overwritten and deleted, and an entity is deleted whole.                *)

BucketSetCmd(parts, value) ==
    Deliver("SET", parts, set_command(app_state, parts, value, FALSE, now, "up"),
            Pre(app_state, now) @@ [indices |-> app_state.indices])

BucketDelCmd(parts) ==
    Deliver("DEL", parts, del_command(app_state, parts, "up"),
            Pre(app_state, now) @@ [indices |-> app_state.indices])

BuIds == {"1", "2"}
BuValues == {StrNode("a"), StrNode("b"), ListNode(<<"a", "b">>)}
BuIndex == <<"u", "f">>

InitBuckets ==
    /\ \E sch \in {"0", "1"} : app_state = NewAppState([DefaultConfig EXCEPT !.SCHEDULER = sch])
    /\ now = 0
    /\ last = NoObs
    /\ peers = NoPeers
    /\ session = NoSession

NextBuckets ==
    \/ IndicesCreateCmd("u", "f", "set")
    \/ \E i \in BuIds, v \in BuValues : BucketSetCmd(<<"u", i, "f">>, v)
    \/ \E i \in BuIds : BucketDelCmd(<<"u", i, "f">>)
    \/ \E i \in BuIds : BucketDelCmd(<<"u", i>>)

SpecBuckets == InitBuckets /\ [][NextBuckets]_vars

\* C30: no `set` index holds a value with an empty bucket: the bucket goes with
\* the last entity key removed from it by an overwriting SET, by the DEL of the
\* field or by the DEL of the entity
C30_NoEmptyBucket ==
    \A ip \in DOMAIN app_state.indices :
        app_state.indices[ip].type = "set" =>
            \A value \in DOMAIN app_state.indices[ip].values :
                app_state.indices[ip].values[value].ids # {}

\* before the command `value` had a bucket holding the entity of the command
\* alone, and the command took the entity out of it
LastEntityRemoved(value) ==
    /\ BuIndex \in DOMAIN last.pre.indices
    /\ value \in DOMAIN last.pre.indices[BuIndex].values
    /\ last.pre.indices[BuIndex].values[value].ids = {Prefix(last.parts, 2)}
    /\ BuIndex \in DOMAIN app_state.indices
    /\ value \notin DOMAIN app_state.indices[BuIndex].values

C30_BucketDeletedWithLastEntity ==
    /\ last.cmd \in {"SET", "DEL"}
    /\ last.reply = "OK"
    /\ \E value \in {"a", "b"} : LastEntityRemoved(value)

----------------------------------------------------------------------------
(* Blockchain.  A block is [index, previous_hash, hash, difficulty,        *)
(* validation_time, data, complete]; complete says that the block has the  *)
(* keys save_blockchain reads (timestamp, nonce, size, checksum, fee,      *)
(* validator): a block as validator.py builds it has no 'checksum' and no  *)
(* 'validator'.  A transaction is [txid, sender, receiver, amount, fee],   *)
(* in the symbol of the chain, with an empty 'validator'.  Balances are    *)
(* kept as integers: the code keeps str(int) and reads it back with int(). *)
(* wallets and data_store['wallets'] hold the same wallet objects and are  *)
(* one function here.                                                      *)

MaxBlocks == 2
MaxRequests == 1
MaxPending == 2
Supply == 2

GenesisAddress == "g"
Addresses == {"g", "a", "b"}

GenesisBlock ==
    [index |-> 0, previous_hash |-> "0", hash |-> "9f", difficulty |-> 1,
     validation_time |-> 0, data |-> <<>>, complete |-> TRUE]

\* the state create_genesis_block leaves, with the wallets of Addresses made
\* by new_wallet: the genesis wallet holds the supply
BlockchainState(config) ==
    NewAppState(config) @@
    [blockchain |-> <<GenesisBlock>>,
     blockchain_blocks_requests |-> <<>>,
     blockchain_pending_transactions |-> <<>>,
     wallets |-> [w \in Addresses |->
                     [balance |-> IF w = GenesisAddress THEN Supply ELSE 0,
                      balance_pending |-> 0]],
     BLOCKCHAIN_CONF |-> [genesis_address |-> GenesisAddress, chain_length |-> 1,
                          previous_hash |-> GenesisBlock.hash, validation_time |-> 0,
                          difficulty |-> GenesisBlock.difficulty]]

\* hash[:difficulty] == '0' * difficulty
ZeroPrefix(hash, difficulty) ==
    /\ Len(hash) >= difficulty
    /\ \A i \in 1..difficulty : SubSeq(hash, i, i) = "0"

\* adjust_difficulty: target_time is 5, the result is clamped to 1..3
adjust_difficulty(current_difficulty, validation_time) ==
    LET Max1(x) == IF x < 1 THEN 1 ELSE x
        new_difficulty ==
            IF validation_time < 5
            THEN current_difficulty + Max1(((5 - validation_time) * current_difficulty) \div 5)
            ELSE IF validation_time > 5
            THEN current_difficulty - Max1(((validation_time - 5) * current_difficulty) \div 5)
            ELSE current_difficulty
    IN IF new_difficulty < 1 THEN 1 ELSE IF new_difficulty > 3 THEN 3 ELSE new_difficulty

update_blockchain_data(st, block, difficulty) ==
    [st EXCEPT !.BLOCKCHAIN_CONF.previous_hash = block.hash,
               !.BLOCKCHAIN_CONF.validation_time = block.validation_time,
               !.BLOCKCHAIN_CONF.difficulty = difficulty]

\* _process_wallets for a transfer (action ''): the sender's pending balance
\* is raised by amount and fee, the receiver is credited, the genesis wallet
\* gets the fee; the three wallets are updated one after the other
process_wallets(st, txn) ==
    LET w0 == st.wallets
        w1 == [w0 EXCEPT ![txn.sender].balance_pending = @ + txn.amount + txn.fee]
        w2 == [w1 EXCEPT ![txn.receiver].balance = @ + txn.amount,
                         ![txn.receiver].balance_pending = @ - txn.amount]
        w3 == [w2 EXCEPT ![GenesisAddress].balance = @ + txn.fee,
                         ![GenesisAddress].balance_pending = @ - txn.fee]
    IN [st EXCEPT !.wallets = w3, !.data_has_changed = TRUE]

RECURSIVE ProcessTxns(_, _, _)
\* for txn in mined_block["data"]: _process_wallets(...)
ProcessTxns(st, data, i) ==
    IF i > Len(data) THEN st ELSE ProcessTxns(process_wallets(st, data[i]), data, i + 1)

\* create_and_save_block: index and previous_hash are written into the block,
\* the block is appended, and save_blockchain raises KeyError (caught by the
\* outer except) on a block that lacks one of the keys it reads
create_and_save_block(st, mined_block) ==
    LET block == [mined_block EXCEPT !.index = st.BLOCKCHAIN_CONF.chain_length,
                                     !.previous_hash = st.BLOCKCHAIN_CONF.previous_hash]
        appended == [st EXCEPT !.BLOCKCHAIN_CONF.chain_length = @ + 1,
                               !.blockchain = Append(@, block)]
    IN IF ~block.complete THEN appended
       ELSE ProcessTxns(
                update_blockchain_data(
                    appended, block,
                    adjust_difficulty(st.BLOCKCHAIN_CONF.difficulty, block.validation_time)),
                block.data, 1)

\* blockchain_blocks_requests[request_id] = parsed_result: a dict keeps the
\* place of a key that is written again
submit_block(st, request_id, result) ==
    [st EXCEPT !.blockchain_blocks_requests =
        IF \E i \in 1..Len(@) : @[i].id = request_id
        THEN [i \in 1..Len(@) |->
                 IF @[i].id = request_id THEN [id |-> request_id, result |-> result] ELSE @[i]]
        ELSE Append(@, [id |-> request_id, result |-> result])]

\* the first entry is popped and its block created
resolve_blocks(st) ==
    IF st.blockchain_blocks_requests = <<>> THEN st
    ELSE create_and_save_block(
             [st EXCEPT !.blockchain_blocks_requests = Tail(@)],
             Head(st.blockchain_blocks_requests).result)

SubmitBlockCmd(request_id, result) ==
    /\ \/ Len(app_state.blockchain_blocks_requests) < MaxRequests
       \/ \E i \in 1..Len(app_state.blockchain_blocks_requests) :
              app_state.blockchain_blocks_requests[i].id = request_id
    /\ Deliver("BLOCK", <<request_id>>, Res(submit_block(app_state, request_id, result), ""),
               Pre(app_state, now))

ResolveBlocks ==
    /\ Len(app_state.blockchain) <= MaxBlocks
    /\ Deliver("RESOLVE", <<>>, Res(resolve_blocks(app_state), ""), Pre(app_state, now))

----------------------------------------------------------------------------
(* SpecChain: nodes submit mined blocks without transactions; a node may   *)
(* send any hash, and a block with or without the keys of the table.       *)

ChHashes == {"00a", "b"}
ChBlocks ==
    {[index |-> 0, previous_hash |-> "", hash |-> h, difficulty |-> d,
      validation_time |-> t, data |-> <<>>, complete |-> c] :
        h \in ChHashes, d \in {1, 2}, t \in {1, 9}, c \in BOOLEAN}

InitChain ==
    /\ app_state = BlockchainState(DefaultConfig)
    /\ now = 0
    /\ last = NoObs
    /\ peers = NoPeers
    /\ session = NoSession

NextChain ==
    \/ \E r \in {"r1", "r2"}, b \in ChBlocks : SubmitBlockCmd(r, b)
    \/ ResolveBlocks

SpecChain == InitChain /\ [][NextChain]_vars

\* C31: every block after the genesis block has a hash that begins with
\* `difficulty` zeros, an index equal to its place in the chain, and the hash
\* of the block before it as previous_hash
C31_ChainWellFormed ==
    \A i \in 2..Len(app_state.blockchain) :
        /\ ZeroPrefix(app_state.blockchain[i].hash, app_state.blockchain[i].difficulty)
        /\ app_state.blockchain[i].index = i - 1
        /\ app_state.blockchain[i].previous_hash = app_state.blockchain[i - 1].hash

----------------------------------------------------------------------------
(* Transfers.  send_txn in the symbol of the chain, BLOCKCHAIN_CAN_BURN    *)
(* False (config.py 58).  The wallets of sender, receiver and genesis are  *)
(* the objects held in app_state.wallets, so a write through one name is   *)
(* seen through the others when two of the addresses are equal.            *)

\* add_txn: the transaction is appended to the pending transactions
add_txn(st, sender, receiver, amount, fee) ==
    [st EXCEPT !.blockchain_pending_transactions =
        Append(@, [txid |-> Len(@) + 1, sender |-> sender, receiver |-> receiver,
                   amount |-> amount, fee |-> fee])]

\* if fee > 0: the sender's balance is written from the balance read before
\* the amount was taken, and the fee is added to the genesis pending balance
FeeTaken(w, sender, fee, mgdb_balance, mgdb_balance_pending) ==
    IF fee > 0
    THEN LET w1 == [w EXCEPT ![sender].balance = mgdb_balance - fee,
                             ![sender].balance_pending = mgdb_balance_pending - fee]
         IN [w1 EXCEPT ![GenesisAddress].balance_pending = @ + fee]
    ELSE w

send_txn(st, sender, receiver, amount, fee) ==
    LET mgdb_balance == st.wallets[sender].balance
        mgdb_balance_pending == st.wallets[sender].balance_pending
        added == add_txn(st, sender, receiver, amount, fee)
        w1 == [st.wallets EXCEPT ![sender].balance = mgdb_balance - amount,
                                 ![sender].balance_pending = mgdb_balance_pending - amount]
        w2 == FeeTaken(w1, sender, fee, mgdb_balance, mgdb_balance_pending)
        w3 == [w2 EXCEPT ![receiver].balance_pending = w2[receiver].balance + amount]
    IN IF mgdb_balance < fee THEN Res(st, "error: Insufficient balance for fee")
       ELSE IF mgdb_balance < amount THEN Res(added, "error: Insufficient balance for symbol")
       ELSE Res([added EXCEPT !.wallets = w3, !.data_has_changed = TRUE], "txid")

SendTxnCmd(sender, receiver, amount, fee) ==
    /\ Len(app_state.blockchain_pending_transactions) < MaxPending
    /\ Deliver("SEND", <<sender, receiver>>, send_txn(app_state, sender, receiver, amount, fee),
               Pre(app_state, now) @@
               [wallets |-> app_state.wallets,
                pending |-> app_state.blockchain_pending_transactions,
                amount |-> amount, fee |-> fee])

\* a node mines the pending transactions into a block and submits it
MinedBlock ==
    [index |-> 0, previous_hash |-> "", hash |-> "0a", difficulty |-> 1,
     validation_time |-> 5, data |-> app_state.blockchain_pending_transactions,
     complete |-> TRUE]

TrAmounts == {1, 3}
TrFees == {0, 1}

InitTransfer == InitChain

NextTransfer ==
    \/ \E s \in Addresses, r \in Addresses, a \in TrAmounts, f \in TrFees :
           s # r /\ SendTxnCmd(s, r, a, f)
    \/ SubmitBlockCmd("r1", MinedBlock)
    \/ ResolveBlocks

SpecTransfer == InitTransfer /\ [][NextTransfer]_vars

\* C32: a send that succeeds takes the amount and the fee from the sender's
\* balance at send time; a send rejected for insufficient balance adds no
\* pending transaction and changes no balance
C32_SendDebitsOrChangesNothing ==
    last.cmd = "SEND" =>
        IF last.reply = "txid"
        THEN app_state.wallets[last.parts[1]].balance =
                 last.pre.wallets[last.parts[1]].balance - last.pre.amount - last.pre.fee
        ELSE /\ app_state.blockchain_pending_transactions = last.pre.pending
             /\ app_state.wallets = last.pre.wallets

----------------------------------------------------------------------------
(* SpecPrune: fields at depth 3 and 4 under the collection 'u' are set and *)
(* deleted one at a time.                                                  *)

PrPaths ==
    {<<"u", "1", "f">>, <<"u", "2", "f">>, <<"u", "1", "g", "h">>, <<"u", "2", "g", "h">>}
PrValues == {StrNode("a"), StrNode("b")}

InitPrune ==
    /\ app_state = NewAppState(DefaultConfig)
    /\ now = 0
    /\ last = NoObs
    /\ peers = NoPeers
    /\ session = NoSession

NextPrune ==
    \/ \E p \in PrPaths, v \in PrValues : SetCmd(p, v, FALSE)
    \/ \E p \in PrPaths : DelCmd(p)

SpecPrune == InitPrune /\ [][NextPrune]_vars

\* the ancestors of the deleted path that are empty objects, as lengths of
\* their paths; 1 is the top-level collection
EmptyAncestors(d, parts) ==
    {i \in 1..(Len(parts) - 1) : IsEmptyDictAt(d, Prefix(parts, i))}

\* C33: after a successful DEL of a specific path no ancestor of the path,
\* up to and including the top-level collection, is left as an empty object
C33_EmptyAncestorsRemoved ==
    (last.cmd = "DEL" /\ last.reply = "OK") =>
        EmptyAncestors(app_state.data_store, last.parts) = {}

----------------------------------------------------------------------------
(* SpecNotify: the session 's1' subscribes to exact paths while the field  *)
(* u:1:f, the counter u:1:n and the entity u:1 are written by every kind   *)
(* of mutation.                                                            *)

NoPaths == {<<"u", "1", "f">>, <<"u", "1", "n">>, <<"u", "1">>}

InitNotify == InitPubSub

NextNotify ==
    \/ Connect("s1")
    \/ \E key \in NoPaths : SubCmd("s1", key)
    \/ SetCmd(<<"u", "1", "f">>, StrNode("a"), FALSE)
    \/ SetCmd(<<"u", "1">>, ObjectNode(<<<<"f", StrNode("b")>>>>), FALSE)
    \/ \E p \in {<<"u", "1", "f">>, <<"u", "1">>} : DelCmd(p)
    \/ \E increment \in BOOLEAN : IncrCmd(<<"u", "1", "n">>, increment)
    \/ RenameCmd(<<"u", "1", "f">>, "n")

SpecNotify == InitNotify /\ [][NextNotify]_vars

\* the registered sessions subscribed to exactly the path
ExactSubscribers(st, path) ==
    IF path \in DOMAIN st.sub_pub THEN st.sub_pub[path] \cap DOMAIN st.sessions ELSE {}

\* the sessions the handler sent a notification for the path
NotifiedOf(obs, path) ==
    UNION {obs.notify[i].sids : i \in {j \in 1..Len(obs.notify) : obs.notify[j].key = path}}

\* the replies of a mutation that was carried out
MutationDone == SuccessReplies \cup {"RENAME successful: 1 key renamed."}

\* C34: every successful SET, DEL, INCR, DECR or RENAME of a path sends a
\* notification for that path to the sessions subscribed to exactly it
C34_MutationNotifiesExactSubscribers ==
    (/\ last.cmd \in {"SET", "DEL", "INCR", "DECR", "RENAME"}
     /\ last.exc = ""
     /\ last.reply \in MutationDone)
        => ExactSubscribers(app_state, last.parts) \subseteq NotifiedOf(last, last.parts)

----------------------------------------------------------------------------
(* QUERY <collection>:<id> JOIN(<table>,<key>) and COUNT <collection>, on  *)
(* a node without sharding.                                                *)

\* join_ids = indices.get(join_table, {}).get(join_key, {}).get(join_value, [])
\* followed by jid.split(':')[1] for jid in join_ids: the dict looked into is
\* the index info, whose keys are 'type' and 'values', so a join value other
\* than these finds nothing, and the characters of the type or the keys of
\* the values have no ':' to split on
JoinIds(st, join_table, join_key, join_value) ==
    IF <<join_table, join_key>> \notin DOMAIN st.indices THEN "empty"
    ELSE IF join_value = "type" THEN "IndexError"
    ELSE IF join_value = "values"
            /\ DOMAIN st.indices[<<join_table, join_key>>].values # {} THEN "IndexError"
    ELSE "empty"

\* str(specific_entry.get(join_key))
JoinValue(d, root, join_key) ==
    IF ~HasKey(d, Append(root, join_key)) THEN "None"
    ELSE IF d[Append(root, join_key)].k = "d" THEN "{...}"
    ELSE StrOf(d[Append(root, join_key)])

\* specific_entry.setdefault(join_table, []).extend(joined_data), with
\* joined_data == []: specific_entry is the dict held in the data store
JoinedInto(st, root, join_table, command, t) ==
    IF HasKey(st.data_store, Append(root, join_table))
    THEN (IF st.data_store[Append(root, join_table)].k # "l"
          THEN Raise(st, "AttributeError")                       \* .extend
          ELSE [Res(add_to_cache(st, command, root, Subtree(st.data_store, root), t),
                    "results") EXCEPT !.result = {Subtree(st.data_store, root)}])
    ELSE LET joined == [st EXCEPT !.data_store =
                            DictPut(@, Append(root, join_table), ListNode(<<>>))]
         IN [Res(add_to_cache(joined, command, root, Subtree(joined.data_store, root), t),
                 "results") EXCEPT !.result = {Subtree(joined.data_store, root)}]

\* query_command and process_local_query for a root with a specific key and
\* one JOIN clause
query_join(st, root, join_table, join_key, t) ==
    LET command == root \o <<"JOIN", join_table, join_key>>
    IN IF Descend(st.data_store, root) = "TypeError" THEN Raise(st, "TypeError")
       ELSE IF Descend(st.data_store, root) = "absent" THEN [Res(st, "[]") EXCEPT !.result = {}]
       ELSE IF get_cache(st, command, t) # {}
       THEN [Res(st, "results") EXCEPT !.result = get_cache(st, command, t)]
       ELSE IF ~IsDictAt(st.data_store, root) THEN Raise(st, "AttributeError")   \* .get
       ELSE IF JoinIds(st, join_table, join_key,
                       JoinValue(st.data_store, root, join_key)) = "IndexError"
       THEN Raise(st, "IndexError")
       ELSE JoinedInto(st, root, join_table, command, t)

\* len(results) of process_local_query(root, '')
count_command(st, main_key, t) ==
    IF ~HasKey(st.data_store, <<main_key>>) THEN Res(st, "0")
    ELSE LET r == process_local_query(st, <<main_key>>, t)
             top == (CHOOSE x \in r.result : TRUE)[<<>>]
         IN IF r.exc # "" THEN r
            ELSE [r EXCEPT !.reply = IF r.result = {} THEN "0"
                                     ELSE IF top.k \in {"d", "l"} THEN NumStr(Len(top.v))
                                     ELSE "1"]

QueryJoinCmd(root, join_table, join_key) ==
    Deliver("QUERY", root, query_join(app_state, root, join_table, join_key, now),
            Pre(app_state, now))

CountCmd(main_key) ==
    Deliver("COUNT", <<main_key>>, count_command(app_state, main_key, now), Pre(app_state, now))

----------------------------------------------------------------------------
(* SpecReadOnly: the collection 'u' is written with and without EXPIRE and *)
(* indexed, and read by QUERY, QUERY with JOIN and COUNT.                  *)

RoPaths == {<<"u", "1", "f">>, <<"u", "2", "f">>}
RoValues == {StrNode("a"), StrNode("b")}
RoRoots == {<<"u">>, <<"u", "1">>}

InitReadOnly == InitTTL

NextReadOnly ==
    \/ \E p \in RoPaths, v \in RoValues, e \in BOOLEAN : SetCmd(p, v, e)
    \/ IndicesCreateCmd("u", "f", "string")
    \/ \E root \in RoRoots : QueryCmd(root)
    \/ QueryJoinCmd(<<"u", "1">>, "t", "f")
    \/ CountCmd("u")

SpecReadOnly == InitReadOnly /\ [][NextReadOnly]_vars

\* C35: a QUERY or a COUNT leaves the document tree, the indices and the
\* TTL store as they were
C35_QueryAndCountReadOnly ==
    [][last'.cmd \in {"QUERY", "COUNT"}
          => /\ app_state'.data_store = app_state.data_store
             /\ app_state'.indices = app_state.indices
             /\ app_state'.expires_store = app_state.expires_store]_vars

----------------------------------------------------------------------------
(* CONFIG SET <key> <value> for a key other than USERNAME, PASSWORD,       *)
(* SHARDING, SCHEDULER, SHARDS and REPLICATION_AUTHORIZED_SLAVES: the      *)
(* value is stored and the configuration saved.                            *)

handle_config_set_value(st, key, value) ==
    IF st.config_store[key] = value THEN Res(st, key \o " already set to " \o value)
    ELSE Res(save_config([st EXCEPT !.config_store[key] = value]),
             "Config updated: " \o key \o " set to " \o value)

ConfigSetCmd(key, value) ==
    Deliver("CONFIG SET", <<key, value>>, handle_config_set_value(app_state, key, value),
            Pre(app_state, now))

----------------------------------------------------------------------------
(* SpecToggle: QUERY_CACHING is switched off and on while u:1:f is set and *)
(* deleted and the collection 'u' is queried.                              *)

TgField == <<"u", "1", "f">>
TgRoot == <<"u">>
TgValues == {StrNode("a"), StrNode("b")}

InitToggle == InitCache

NextToggle ==
    \/ \E value \in {"0", "1"} : ConfigSetCmd("QUERY_CACHING", value)
    \/ \E v \in TgValues : SetCmd(TgField, v, FALSE)
    \/ DelCmd(TgField)
    \/ QueryCmd(TgRoot)
    \/ Advance

SpecToggle == InitToggle /\ [][NextToggle]_vars

\* C36: whatever CONFIG SET QUERY_CACHING did between them, a QUERY never
\* returns a result that was cached before a later SET or DEL: the result
\* it returns is the collection as it is
C36_NoStaleResultAfterToggle ==
    (last.cmd = "QUERY" /\ last.reply = "results")
        => last.result = {Subtree(app_state.data_store, last.parts)}

----------------------------------------------------------------------------
(* SpecSchedLive: SpecSched with the scheduler task resumed again and      *)
(* again: every pass of run_scheduler ends in asyncio.sleep(1), after      *)
(* which the event loop runs the task again, and a pass has no other       *)
(* point at which it is suspended.                                         *)

SpecSchedLive == InitSched /\ [][NextSched]_vars /\ WF_vars(Tick)

\* C37: with SCHEDULER '1' and no shutdown the scheduler loop keeps making
\* passes for ever: at any time a pass that ends without an exception is
\* still to come
C37_SchedulerKeepsTicking == []<>(last.cmd = "TICK" /\ last.exc = "")

----------------------------------------------------------------------------
(* SpecExpiry: scheduler on; u:1:f and u:2:f are set with and without      *)
(* EXPIRE and deleted while the clock runs and the scheduler makes its     *)
(* passes.                                                                 *)

\* SET on a node without sharding, observed with its EXPIRE instruction
SetTtlCmd(parts, value, expire) ==
    Deliver("SET", parts, set_command(app_state, parts, value, expire, now, "up"),
            Pre(app_state, now) @@ [expire |-> expire])

InitExpiry == InitTTL

NextExpiry ==
    \/ \E p \in TtlPaths, e \in BOOLEAN : SetTtlCmd(p, StrNode("a"), e)
    \/ \E p \in TtlPaths : DelCmd(p)
    \/ Advance
    \/ Tick

SpecExpiry == InitExpiry /\ [][NextExpiry]_vars

\* C38: the value a SET without EXPIRE has just written is not removed by
\* the pass of the scheduler that comes next, whatever TTL the path had
\* before the SET
C38_PlainSetSurvivesSweep ==
    [][(/\ last.cmd = "SET" /\ last.reply = "OK" /\ ~last.pre.expire
        /\ last'.cmd = "TICK")
          => HasKey(app_state'.data_store, last.parts)]_vars

----------------------------------------------------------------------------
(* SpecSnapshot: SET with and without EXPIRE, DEL and INDICES CREATE with  *)
(* the scheduler on or off, the clock and the passes of the scheduler, on  *)
(* a disk whose writes all succeed: data_file and indices_file hold the    *)
(* last snapshots written.                                                 *)

SnPaths == {<<"u", "1", "f">>}
SnValues == {StrNode("a"), StrNode("b")}

InitSnapshot == InitSave

NextSnapshot ==
    \/ \E p \in SnPaths, v \in SnValues, e \in BOOLEAN : SetTtlCmd(p, v, e)
    \/ \E p \in SnPaths : DelCmd(p)
    \/ IndicesCreateCmd("u", "f", "string")
    \/ Advance
    \/ Tick

SpecSnapshot == InitSnapshot /\ [][NextSnapshot]_vars

\* C39: between commands, a clear data flag means that the data file holds
\* the document tree, and a clear indices flag that the indices file holds
\* the indices
C39_CleanFlagMeansSaved ==
    /\ ~app_state.data_has_changed => app_state.data_file = app_state.data_store
    /\ ~app_state.indices_has_changed => app_state.indices_file = app_state.indices

----------------------------------------------------------------------------
(* CONFIG SET SHARDING and CONFIG SET SHARDS ADD/DEL.  The handlers end    *)
(* with reshard_command, so each returns the reply with the state of the   *)
(* shard servers as RESHARD leaves them.                                   *)

\* handle_config_set_command with key SHARDING
config_set_sharding(st, ps, nets, value) ==
    IF value = "1" /\ st.config_store.SHARDS = <<>>
    THEN [r |-> Res(st, "ERROR: Cannot enable SHARDING without defined SHARDS. First run "
                        \o "the command CONFIG SET SHARDS ADD serverip/domain"),
          ps |-> ps]
    ELSE IF st.config_store.SHARDING = value
    THEN [r |-> handle_config_set_value(st, "SHARDING", value), ps |-> ps]
    ELSE IF ~is_sharding_master(handle_config_set_value(st, "SHARDING", value).st)
    THEN [r |-> handle_config_set_value(st, "SHARDING", value), ps |-> ps]
    ELSE LET set == handle_config_set_value(st, "SHARDING", value)
             x == reshard_command(set.st, ps, nets)
         IN [r |-> Res(x.r.st, set.reply \o " - " \o
                               (IF value = "1" THEN x.r.reply ELSE "Data stored on Master")),
             ps |-> x.ps]

\* the reshard_command that ends handle_config_add_to_list and
\* handle_config_remove_from_list
ListResharded(st, ps, nets, key, res) ==
    IF key = "SHARDS" /\ has_sharding(st) /\ is_sharding_master(st)
    THEN [r |-> Res(reshard_command(st, ps, nets).r.st, res \o " and resharded data to shards"),
          ps |-> reshard_command(st, ps, nets).ps]
    ELSE [r |-> Res(st, res), ps |-> ps]

handle_config_add_to_list(st, ps, nets, key, value) ==
    IF ~InSeq(value, st.config_store[key])
    THEN ListResharded(save_config([st EXCEPT !.config_store[key] = Append(@, value)]),
                       ps, nets, key, "Added " \o value \o " to " \o key)
    ELSE ListResharded(st, ps, nets, key, value \o " already in " \o key)

handle_config_remove_from_list(st, ps, nets, key, value) ==
    IF InSeq(value, st.config_store[key])
    THEN IF key = "SHARDS" /\ value = st.config_store.HOST /\ st.config_store.SHARDING = "1"
         THEN [r |-> Res(st, "ERROR: Cannot remove the host from SHARDS while SHARDING is "
                             \o "enabled. First run the command CONFIG SET SHARDING 0"),
               ps |-> ps]
         ELSE ListResharded(save_config([st EXCEPT !.config_store[key] = Without(@, value)]),
                            ps, nets, key, "Removed " \o value \o " from " \o key)
    ELSE ListResharded(st, ps, nets, key, value \o " not found in " \o key)

\* handle_config_set_replication_shards
handle_config_set_replication_shards(st, ps, nets, key, operation, value) ==
    IF operation = "ADD" THEN handle_config_add_to_list(st, ps, nets, key, value)
    ELSE IF operation = "DEL" THEN handle_config_remove_from_list(st, ps, nets, key, value)
    ELSE [r |-> Res(st, "ERROR: Invalid operation for " \o key \o " (ADD/DEL required)"),
          ps |-> ps]

\* the CONFIG SET handler returned x: its effects on this server and on the
\* shards
ConfigSetDone(parts, x, nets) ==
    /\ app_state' = x.r.st
    /\ peers' = x.ps
    /\ last' = Obs("CONFIG SET", parts, x.r, [Pre(app_state, now) EXCEPT !.nets = nets])
    /\ UNCHANGED <<now, session>>

ConfigSetShardingCmd(value) ==
    \E nets \in [DOMAIN peers -> {"up", "down"}] :
        ConfigSetDone(<<"SHARDING", value>>,
                      config_set_sharding(app_state, peers, nets, value), nets)

ConfigSetShardsCmd(operation, value) ==
    \E nets \in [DOMAIN peers -> {"up", "down"}] :
        ConfigSetDone(<<"SHARDS", operation, value>>,
                      handle_config_set_replication_shards(app_state, peers, nets, "SHARDS",
                                                           operation, value), nets)

----------------------------------------------------------------------------
(* SpecShards: the server 'h0' starts with the default configuration, no   *)
(* sharding and no shards; the servers 'h1' and 'h2' can be made shards.   *)

ShHosts == {"h0", "h1", "h2"}

InitShards ==
    /\ app_state = NewAppState(DefaultConfig)
    /\ now = 0
    /\ last = NoObs
    /\ session = NoSession
    /\ peers = [h \in {"h1", "h2"} |-> NewAppState(PeerConfig(h))]

NextShards ==
    \/ \E value \in {"0", "1"} : ConfigSetShardingCmd(value)
    \/ \E operation \in {"ADD", "DEL"}, h \in ShHosts : ConfigSetShardsCmd(operation, h)

SpecShards == InitShards /\ [][NextShards]_vars

\* C40: whenever SHARDING is '1' the SHARDS list is not empty
C40_ShardingHasShards ==
    has_sharding(app_state) => app_state.config_store.SHARDS # <<>>

====
